---------------------------- MODULE Spec2Model ----------------------------
(***************************************************************************)
(* ILGuard core: the price-history tracker (PriceService), the closed-form *)
(* impermanent-loss calculator (ilCalculator) and the IL predictor         *)
(* (ILPredictor).                                                          *)
(*                                                                         *)
(* Numbers.  The program computes in IEEE doubles.  Here a real x is the   *)
(* integer floor(x * SCALE) ("fixed point"); every product and quotient is *)
(* rounded down to that grid in the order the code evaluates it.  Prices,  *)
(* percentages and USD values are all fixed-point numbers; timestamps are  *)
(* integer milliseconds, sample counts and minutes are plain integers.     *)
(***************************************************************************)
EXTENDS Integers, Sequences, FiniteSets

VARIABLES
    now,            \* Date.now(), in milliseconds
    priceHistory,   \* PriceService.priceHistory: symbol -> sequence of {price, timestamp}
    recorded,       \* history variable: every sample added per symbol since its last clear
    ret,            \* the last operation performed and what it returned
    batch,          \* the predictMultiple call in progress, if any
    predictorMonitor,   \* ILPredictor.monitorPosition: its timer and its ticks
    positionMonitor \* PositionMonitor: positions, updateCallbacks, timer, ticks

\* the state of the asynchronous operations
asyncVars == <<batch, predictorMonitor, positionMonitor>>

vars == <<now, priceHistory, recorded, ret, batch, predictorMonitor, positionMonitor>>

---------------------------------------------------------------------------
(* Fixed-point arithmetic *)

SCALE == 10 * 10 * 10

Fx(n) == n * SCALE

FxMul(a, b) == (a * b) \div SCALE

FxDiv(a, b) == (a * SCALE) \div b

Abs(x) == IF x < 0 THEN -x ELSE x

Min(a, b) == IF a < b THEN a ELSE b

Max(a, b) == IF a > b THEN a ELSE b

RECURSIVE SqrtSearch(_, _, _)
SqrtSearch(x, lo, hi) ==
    \* the largest k in lo..hi with k*k <= x   (lo*lo <= x is kept true)
    IF lo >= hi THEN lo
    ELSE LET mid == (lo + hi + 1) \div 2
         IN  IF mid * mid <= x THEN SqrtSearch(x, mid, hi)
                               ELSE SqrtSearch(x, lo, mid - 1)

\* Math.sqrt on fixed-point numbers: floor(sqrt(a / SCALE) * SCALE)
FxSqrt(a) == SqrtSearch(a * SCALE, 0, 46340)

\* Math.round: the nearest integer, halves rounded up
FxRound(a) == (a + SCALE \div 2) \div SCALE

RECURSIVE SeqSum(_)
SeqSum(s) == IF s = <<>> THEN 0 ELSE Head(s) + SeqSum(Tail(s))

\* "T | null": null is the empty tuple, a value v is <<v>>
Null == <<>>

Some(v) == <<v>>

---------------------------------------------------------------------------
(* PriceService *)

\* the keys of PRICE_FEED_IDS that the model uses
PRICE_FEED_IDS == {"SOL/USD", "USDC/USD"}

\* the symbols callers pass: a feed symbol, and a bare token symbol with no feed
Symbols == {"SOL/USD", "SOL"}

MAX_HISTORY_POINTS == 100

\* addToHistory that drops the sample just pushed (pop for shift) on overflow
addToHistory_DropNewest(history, price, t) ==
    LET pushed == Append(history, [price |-> price, timestamp |-> t])
    IN  IF Len(pushed) > MAX_HISTORY_POINTS
        THEN SubSeq(pushed, 1, Len(pushed) - 1) ELSE pushed

\* addToHistory(symbol, price): the history of symbol afterwards
addToHistory(history, price, t) ==
    LET pushed == Append(history, [price |-> price, timestamp |-> t])
    IN  IF Len(pushed) > MAX_HISTORY_POINTS THEN Tail(pushed) ELSE pushed

RECURSIVE ClosestFrom(_, _, _, _, _)
ClosestFrom(history, targetTime, i, closest, minDiff) ==
    \* the loop of findPriceAtTime from index i on: <<closest, minDiff>> at its end
    IF i > Len(history) THEN <<closest, minDiff>>
    ELSE LET diff == Abs(history[i].timestamp - targetTime)
         IN  IF diff < minDiff
             THEN ClosestFrom(history, targetTime, i + 1, history[i], diff)
             ELSE ClosestFrom(history, targetTime, i + 1, closest, minDiff)

\* findPriceAtTime that also accepts a sample exactly 30 s from the target
findPriceAtTime_Inclusive(history, targetTime) ==
    IF Len(history) = 0 THEN Null
    ELSE LET found == ClosestFrom(history, targetTime, 1, history[1],
                                  Abs(history[1].timestamp - targetTime))
         IN  IF found[2] <= 30000 THEN Some(found[1].price) ELSE Null

\* findPriceAtTime(history, targetTime): number | null
findPriceAtTime(history, targetTime) ==
    IF Len(history) = 0 THEN Null
    ELSE LET found == ClosestFrom(history, targetTime, 1, history[1],
                                  Abs(history[1].timestamp - targetTime))
         IN  IF found[2] < 30000 THEN Some(found[1].price) ELSE Null

\* ((currentPrice - old) / old) * 100, or 0 when old is null (or 0)
ChangeSince(currentPrice, old) ==
    IF old # Null /\ old[1] # 0
    THEN FxDiv(currentPrice - old[1], old[1]) * 100
    ELSE 0

\* the PriceVelocity that getPriceVelocity builds from a history at time t
VelocityOf(history, t, symbol) ==
    LET currentPrice    == history[Len(history)].price
        price1minAgo    == findPriceAtTime(history, t - 60 * 1000)
        price5minAgo    == findPriceAtTime(history, t - 5 * 60 * 1000)
        price15minAgo   == findPriceAtTime(history, t - 15 * 60 * 1000)
        priceChange1min  == ChangeSince(currentPrice, price1minAgo)
        priceChange5min  == ChangeSince(currentPrice, price5minAgo)
        priceChange15min == ChangeSince(currentPrice, price15minAgo)
    IN  [symbol           |-> symbol,
         currentPrice     |-> currentPrice,
         priceChange1min  |-> priceChange1min,
         priceChange5min  |-> priceChange5min,
         priceChange15min |-> priceChange15min,
         velocityPerHour  |->
               FxMul(priceChange15min, 500) * 4
             + FxMul(priceChange5min, 300) * 12
             + FxMul(priceChange1min, 200) * 60]

\* getPriceVelocity that asks for three samples
getPriceVelocity_Min3(ph, t, symbol) ==
    IF Len(ph[symbol]) < 3 THEN Null
    ELSE Some(VelocityOf(ph[symbol], t, symbol))

\* getPriceVelocity(symbol): PriceVelocity | null
getPriceVelocity(ph, t, symbol) ==
    IF Len(ph[symbol]) < 2 THEN Null
    ELSE Some(VelocityOf(ph[symbol], t, symbol))

\* RecentPrices without the window filter
RecentPrices_NoWindow(history, t, windowMinutes) ==
    [i \in 1..Len(history) |-> history[i].price]

\* the samples of history inside the trailing window, as prices
RecentPrices(history, t, windowMinutes) ==
    LET windowMs == windowMinutes * 60 * 1000
        InWindow(p) == t - p.timestamp < windowMs
        recent == SelectSeq(history, InWindow)   \* Array.prototype.filter
    IN  [i \in 1..Len(recent) |-> recent[i].price]

\* the percentage changes between consecutive recent prices
RECURSIVE Changes(_, _)
Changes(recentPrices, i) ==
    IF i > Len(recentPrices) THEN <<>>
    ELSE LET prev == recentPrices[i - 1]
             curr == recentPrices[i]
         IN  (IF prev # 0 /\ curr # 0
              THEN <<FxDiv(curr - prev, prev) * 100>> ELSE <<>>)
             \o Changes(recentPrices, i + 1)

\* StdDev whose sum for the mean starts from 1 instead of 0
StdDev_SeedOne(changes) ==
    LET n        == Len(changes)
        mean     == (Fx(1) + SeqSum(changes)) \div n
        squares  == [i \in 1..n |-> FxMul(changes[i] - mean, changes[i] - mean)]
        variance == SeqSum(squares) \div n
    IN  FxSqrt(variance)

\* mean, variance and standard deviation of the changes
StdDev(changes) ==
    LET n        == Len(changes)
        mean     == SeqSum(changes) \div n
        squares  == [i \in 1..n |-> FxMul(changes[i] - mean, changes[i] - mean)]
        variance == SeqSum(squares) \div n
    IN  FxSqrt(variance)

\* getVolatility(symbol, windowMinutes)
getVolatility(ph, t, symbol, windowMinutes) ==
    LET history == ph[symbol]
    IN  IF Len(history) < 3 THEN 0
        ELSE LET recentPrices == RecentPrices(history, t, windowMinutes)
             IN  IF Len(recentPrices) < 3 THEN 0
                 ELSE StdDev(Changes(recentPrices, 2))

\* getHistorySize(symbol)
getHistorySize(ph, symbol) == Len(ph[symbol])

---------------------------------------------------------------------------
(* PriceService.getPrice: the feed's answer is the environment's choice *)

\* getPrice that stores the sample twice
getPrice_RecordsTwice(ph, t, symbol, answer) ==
    IF symbol \notin PRICE_FEED_IDS \/ answer = Null
    THEN [history |-> ph, value |-> Null]
    ELSE [history |-> [ph EXCEPT ![symbol] =
                          addToHistory(addToHistory(@, answer[1], t), answer[1], t)],
          value   |-> Some([symbol |-> symbol, price |-> answer[1], timestamp |-> t])]

\* the state and the result of getPrice(symbol) when the feed answers `answer`
\* (Null: no parsed update, or the request threw and was caught)
getPrice(ph, t, symbol, answer) ==
    IF symbol \notin PRICE_FEED_IDS \/ answer = Null
    THEN [history |-> ph, value |-> Null]
    ELSE [history |-> [ph EXCEPT ![symbol] = addToHistory(@, answer[1], t)],
          value   |-> Some([symbol |-> symbol, price |-> answer[1], timestamp |-> t])]

---------------------------------------------------------------------------
(* utils/ilCalculator *)

\* calculateImpermanentLoss without the square root
calculateImpermanentLoss_NoSqrt(initialPrice, currentPrice, initialValue) ==
    LET priceRatio   == FxDiv(currentPrice, initialPrice)
        ilMultiplier == FxDiv(2 * priceRatio, Fx(1) + priceRatio)
        ilPercentage == (ilMultiplier - Fx(1)) * 100
        currentValue == FxMul(initialValue, ilMultiplier)
        holdValue    == initialValue
        ilValue      == currentValue - holdValue
    IN  [ilPercentage |-> ilPercentage,
         ilValue      |-> ilValue,
         currentValue |-> currentValue,
         holdValue    |-> holdValue]

calculateImpermanentLoss(initialPrice, currentPrice, initialValue) ==
    LET priceRatio   == FxDiv(currentPrice, initialPrice)
        ilMultiplier == FxDiv(2 * FxSqrt(priceRatio), Fx(1) + priceRatio)
        ilPercentage == (ilMultiplier - Fx(1)) * 100
        currentValue == FxMul(initialValue, ilMultiplier)
        holdValue    == initialValue
        ilValue      == currentValue - holdValue
    IN  [ilPercentage |-> ilPercentage,
         ilValue      |-> ilValue,
         currentValue |-> currentValue,
         holdValue    |-> holdValue]

\* the predictIL of ilCalculator (the predictor imports it under that name)
estimateIL(currentPrice, predictedPrice, positionValue) ==
    calculateImpermanentLoss(currentPrice, predictedPrice, positionValue)

calculatePriceChange(oldPrice, newPrice) ==
    FxDiv(newPrice - oldPrice, oldPrice) * 100

\* isRebalanceWorthwhile with >= for >
isRebalanceWorthwhile_Ge(predictedILValue, estimatedGasCostUSD, minSavingsMultiplier) ==
    Abs(predictedILValue) >= FxMul(estimatedGasCostUSD, minSavingsMultiplier)

isRebalanceWorthwhile(predictedILValue, estimatedGasCostUSD, minSavingsMultiplier) ==
    LET potentialSavings == Abs(predictedILValue)
    IN  potentialSavings > FxMul(estimatedGasCostUSD, minSavingsMultiplier)

---------------------------------------------------------------------------
(* ILPredictor *)

VOLATILITY_WEIGHT == 400    \* 0.4

VELOCITY_WEIGHT == 600      \* 0.6

\* (hourlyChange / 60) * timeframeMinutes
ExpectedChange(velocity, timeframeMinutes) ==
    (velocity.velocityPerHour \div 60) * timeframeMinutes

\* currentPrice * (1 + expectedChange / 100)
VelocityPrediction(currentPrice, expectedChange) ==
    FxMul(currentPrice, Fx(1) + expectedChange \div 100)

\* VolatilityAdjustment with the sign +1 at expectedChange = 0 too
VolatilityAdjustment_GeZero(currentPrice, volatility, expectedChange) ==
    FxMul(currentPrice, volatility \div 100) * (IF expectedChange >= 0 THEN 1 ELSE -1)

\* currentPrice * (volatility / 100) * (expectedChange > 0 ? 1 : -1)
VolatilityAdjustment(currentPrice, volatility, expectedChange) ==
    FxMul(currentPrice, volatility \div 100) * (IF expectedChange > 0 THEN 1 ELSE -1)

\* Confidence without the cap of the history factor at 1
Confidence_NoCap(volatility, historySize) ==
    LET historyFactor        == FxDiv(Fx(historySize), Fx(50))
        volatilityConfidence == Max(0, Fx(100) - volatility * 5)
        confidence           == FxMul(volatilityConfidence, historyFactor)
    IN  FxRound(confidence)

\* the confidence score of predictFuturePrice
Confidence(volatility, historySize) ==
    LET historyFactor        == Min(FxDiv(Fx(historySize), Fx(50)), Fx(1))
        volatilityConfidence == Max(0, Fx(100) - volatility * 5)
        confidence           == FxMul(volatilityConfidence, historyFactor)
    IN  FxRound(confidence)

\* predictFuturePrice(currentPrice, velocity, volatility, timeframeMinutes);
\* ph is the price service's history, which it asks for the history size
predictFuturePrice(ph, currentPrice, velocity, volatility, timeframeMinutes) ==
    LET expectedChange       == ExpectedChange(velocity, timeframeMinutes)
        velocityPrediction   == VelocityPrediction(currentPrice, expectedChange)
        volatilityAdjustment == VolatilityAdjustment(currentPrice, volatility, expectedChange)
        predictedPrice ==
              FxMul(velocityPrediction, VELOCITY_WEIGHT)
            + FxMul(velocityPrediction + volatilityAdjustment, VOLATILITY_WEIGHT)
    IN  [predictedPrice |-> Max(predictedPrice, 0),
         confidence     |-> Confidence(volatility, getHistorySize(ph, velocity.symbol))]

\* calculateRiskLevel with the thresholds taken inclusively on the low side
calculateRiskLevel_Inclusive(ilPercentage) ==
    LET absIL == Abs(ilPercentage)
    IN  IF absIL <= Fx(2) THEN "low"
        ELSE IF absIL <= Fx(4) THEN "medium"
        ELSE IF absIL <= Fx(6) THEN "high"
        ELSE "critical"

\* calculateRiskLevel(ilPercentage), thresholds RISK_THRESHOLDS = 2, 4, 6
calculateRiskLevel(ilPercentage) ==
    LET absIL == Abs(ilPercentage)
    IN  IF absIL < Fx(2) THEN "low"
        ELSE IF absIL < Fx(4) THEN "medium"
        ELSE IF absIL < Fx(6) THEN "high"
        ELSE "critical"

\* generateRecommendation: the template chosen and the direction word in it
generateRecommendation(riskLevel, ilPercentage, velocity) ==
    [template  |-> riskLevel,
     absIL     |-> Abs(ilPercentage),
     direction |-> IF velocity.velocityPerHour > 0 THEN "upward" ELSE "downward"]

\* the ILPrediction that predictIL builds once price and velocity are there
PredictionOf(ph, t, symbol, config, priceData, velocity) ==
    LET volatility == getVolatility(ph, t, symbol, config.timeframeMinutes)
        future     == predictFuturePrice(ph, priceData.price, velocity, volatility,
                                         config.timeframeMinutes)
        ilResult   == estimateIL(config.entryPrice, future.predictedPrice,
                                 config.positionValueUSD)
        riskLevel  == calculateRiskLevel(Abs(ilResult.ilPercentage))
    IN  [symbol                |-> symbol,
         currentPrice          |-> priceData.price,
         predictedPrice        |-> future.predictedPrice,
         predictionTimeframe   |-> config.timeframeMinutes,
         predictedILPercentage |-> ilResult.ilPercentage,
         predictedILValue      |-> ilResult.ilValue,
         confidence            |-> future.confidence,
         riskLevel             |-> riskLevel,
         recommendation        |-> generateRecommendation(riskLevel,
                                       ilResult.ilPercentage, velocity)]

\* predictIL that also gives up on a zero velocity (a falsy check)
predictIL_FalsyVelocity(ph, t, symbol, config, answer) ==
    LET fetched  == getPrice(ph, t, symbol, answer)
        velocity == getPriceVelocity(fetched.history, t, symbol)
    IN  IF fetched.value = Null THEN [history |-> fetched.history, value |-> Null]
        ELSE IF velocity = Null \/ velocity[1].velocityPerHour = 0
             THEN [history |-> fetched.history, value |-> Null]
        ELSE [history |-> fetched.history,
              value   |-> Some(PredictionOf(fetched.history, t, symbol, config,
                                            fetched.value[1], velocity[1]))]

\* predictIL(symbol, config) when the feed answers `answer`: the history
\* afterwards and the ILPrediction | null returned
predictIL(ph, t, symbol, config, answer) ==
    LET fetched  == getPrice(ph, t, symbol, answer)
        velocity == getPriceVelocity(fetched.history, t, symbol)
    IN  IF fetched.value = Null THEN [history |-> fetched.history, value |-> Null]
        ELSE IF velocity = Null THEN [history |-> fetched.history, value |-> Null]
        ELSE [history |-> fetched.history,
              value   |-> Some(PredictionOf(fetched.history, t, symbol, config,
                                            fetched.value[1], velocity[1]))]

---------------------------------------------------------------------------
(* Bounds of the model *)

\* samples recorded per symbol between two clears
MaxRecords == 3

\* the clock readings the model explores (ms): they put samples 15 s, 30 s and
\* 60 s from the 1-minute target and on the 5- and 15-minute targets
Instants == {0, 15000, 45000, 60000, 90000, 300000, 900000}

\* what the feed reports
Prices == {Fx(10), Fx(11)}

\* what the feed may answer to one request: nothing, or a price
Answers == {Null} \cup {Some(p) : p \in Prices}

\* the windowMinutes that callers ask for
Windows == {1, 15}

\* the PredictionConfigs that callers pass
Configs ==
    { [timeframeMinutes |-> 30, positionValueUSD |-> Fx(1000), entryPrice |-> Fx(10)],
      [timeframeMinutes |-> 15, positionValueUSD |-> Fx(1000), entryPrice |-> Fx(8)] }

\* the long run of recordings that fills a history: its length, the clock
\* readings during it and the one price reported
FifoMaxRecords == 102

FifoInstants == {0, 1}

FifoAnswers == {Some(Fx(10))}

\* the inputs of the calculator functions
CalcPrices == {Fx(1), Fx(2), Fx(7), Fx(10), Fx(11), Fx(20), Fx(70), Fx(100), Fx(200)}

CalcValues == {0 - Fx(100), 0, Fx(100), Fx(1000)}

Savings == {0 - Fx(250), 0 - Fx(20), 0, Fx(15), Fx(20), Fx(20) + 1, Fx(250)}

GasCosts == {10, Fx(2)}

Multipliers == {Fx(1), Fx(10)}

\* the inputs of predictFuturePrice: hourly velocities and volatilities (percent)
\* and the history sizes it meets
Velocities == {0 - Fx(12), 0, Fx(12)}

Volatilities == {0, 500, Fx(2), Fx(10), Fx(19), Fx(20), Fx(25)}

Timeframes == {15, 30}

PredictMaxRecords == 52

---------------------------------------------------------------------------
(* The operations *)

Init ==
    /\ now = 0
    /\ priceHistory = [s \in Symbols \cup PRICE_FEED_IDS |-> <<>>]
    /\ recorded = [s \in Symbols \cup PRICE_FEED_IDS |-> <<>>]
    /\ ret = [op |-> "init"]
    /\ batch = Null
    /\ predictorMonitor = [phase |-> "idle", symbol |-> Null, config |-> Null,
                           returned |-> Null, armedAt |-> Null,
                           ticks |-> <<>>, cancelled |-> FALSE]
    /\ positionMonitor = [positions |-> <<>>, updateCallbacks |-> <<>>,
                          timer |-> "none", monitored |-> Null, returned |-> Null,
                          ticks |-> <<>>, cancelled |-> FALSE]

\* the history variable after an operation that left the histories as `after`
Recorded(symbol, fetched, t) ==
    IF fetched.value = Null THEN recorded
    ELSE [recorded EXCEPT ![symbol] =
             Append(@, [price |-> fetched.value[1].price, timestamp |-> t])]

\* time passes: the clock reads t next
Advance(t) ==
    /\ t > now
    /\ now' = t
    /\ UNCHANGED asyncVars
    /\ ret' = [op |-> "advance"]
    /\ UNCHANGED <<priceHistory, recorded>>

GetPrice(symbol, answer) ==
    LET r == getPrice(priceHistory, now, symbol, answer)
    IN  /\ priceHistory' = r.history
        /\ recorded' = Recorded(symbol, r, now)
        /\ UNCHANGED asyncVars
        /\ ret' = [op |-> "getPrice", symbol |-> symbol, value |-> r.value]
        /\ UNCHANGED now

GetPriceVelocity(symbol) ==
    /\ UNCHANGED asyncVars
    /\ ret' = [op |-> "getPriceVelocity", symbol |-> symbol,
               value |-> getPriceVelocity(priceHistory, now, symbol)]
    /\ UNCHANGED <<now, priceHistory, recorded>>

GetVolatility(symbol, windowMinutes) ==
    /\ UNCHANGED asyncVars
    /\ ret' = [op |-> "getVolatility", symbol |-> symbol,
               windowMinutes |-> windowMinutes,
               value |-> getVolatility(priceHistory, now, symbol, windowMinutes)]
    /\ UNCHANGED <<now, priceHistory, recorded>>

GetHistorySize(symbol) ==
    /\ UNCHANGED asyncVars
    /\ ret' = [op |-> "getHistorySize", symbol |-> symbol,
               value |-> getHistorySize(priceHistory, symbol)]
    /\ UNCHANGED <<now, priceHistory, recorded>>

\* clearHistory(symbol)
ClearHistory(symbol) ==
    /\ priceHistory' = [priceHistory EXCEPT ![symbol] = <<>>]
    /\ recorded' = [recorded EXCEPT ![symbol] = <<>>]
    /\ UNCHANGED asyncVars
    /\ ret' = [op |-> "clearHistory", symbol |-> symbol]
    /\ UNCHANGED now

\* predictIL(symbol, config): the step from the resolution of its price fetch to
\* its return (nothing is read before the fetch resolves)
PredictIL(symbol, config, answer) ==
    LET r == predictIL(priceHistory, now, symbol, config, answer)
    IN  /\ priceHistory' = r.history
        /\ recorded' = Recorded(symbol, getPrice(priceHistory, now, symbol, answer), now)
        /\ UNCHANGED asyncVars
        /\ ret' = [op |-> "predictIL", symbol |-> symbol, config |-> config,
                   answer |-> answer, value |-> r.value]
        /\ UNCHANGED now

\* room for one more sample of symbol under the bound
Room(symbol, answer, bound) ==
    (symbol \in PRICE_FEED_IDS /\ answer # Null) => Len(recorded[symbol]) < bound

Next ==
    \/ \E t \in Instants : Advance(t)
    \/ \E s \in Symbols, a \in Answers : Room(s, a, MaxRecords) /\ GetPrice(s, a)
    \/ \E s \in Symbols : GetPriceVelocity(s)
    \/ \E s \in Symbols, w \in Windows : GetVolatility(s, w)
    \/ \E s \in Symbols : GetHistorySize(s)
    \/ \E s \in Symbols : ClearHistory(s)
    \/ \E s \in Symbols, c \in Configs, a \in Answers :
          Room(s, a, MaxRecords) /\ PredictIL(s, c, a)

Spec == Init /\ [][Next]_vars

---------------------------------------------------------------------------
(* A long run of recordings of one symbol, which fills its history *)

NextFifo ==
    \/ \E t \in FifoInstants : Advance(t)
    \/ \E a \in FifoAnswers :
          Room("SOL/USD", a, FifoMaxRecords) /\ GetPrice("SOL/USD", a)
    \/ ClearHistory("SOL/USD")

SpecFifo == Init /\ [][NextFifo]_vars

---------------------------------------------------------------------------
(* The calculator functions on their own *)

CalculateImpermanentLoss(initialPrice, currentPrice, initialValue) ==
    /\ UNCHANGED asyncVars
    /\ ret' = [op |-> "calculateImpermanentLoss",
               initialPrice |-> initialPrice, currentPrice |-> currentPrice,
               initialValue |-> initialValue,
               value |-> calculateImpermanentLoss(initialPrice, currentPrice, initialValue)]
    /\ UNCHANGED <<now, priceHistory, recorded>>

IsRebalanceWorthwhile(predictedILValue, estimatedGasCostUSD, minSavingsMultiplier) ==
    /\ UNCHANGED asyncVars
    /\ ret' = [op |-> "isRebalanceWorthwhile",
               predictedILValue |-> predictedILValue,
               estimatedGasCostUSD |-> estimatedGasCostUSD,
               minSavingsMultiplier |-> minSavingsMultiplier,
               value |-> isRebalanceWorthwhile(predictedILValue, estimatedGasCostUSD,
                                               minSavingsMultiplier)]
    /\ UNCHANGED <<now, priceHistory, recorded>>

NextCalc ==
    \/ \E i \in CalcPrices, c \in CalcPrices, v \in CalcValues :
          CalculateImpermanentLoss(i, c, v)
    \/ \E v \in Savings, g \in GasCosts, m \in Multipliers :
          IsRebalanceWorthwhile(v, g, m)

SpecCalc == Init /\ [][NextCalc]_vars

---------------------------------------------------------------------------
(* predictFuturePrice on its own, over histories of every size up to saturation *)

PredictFuturePrice(currentPrice, velocityPerHour, volatility, timeframeMinutes) ==
    LET velocity == [symbol |-> "SOL/USD", currentPrice |-> currentPrice,
                     priceChange1min |-> 0, priceChange5min |-> 0,
                     priceChange15min |-> 0, velocityPerHour |-> velocityPerHour]
    IN  /\ UNCHANGED asyncVars
        /\ ret' = [op |-> "predictFuturePrice", currentPrice |-> currentPrice,
                   velocity |-> velocity, volatility |-> volatility,
                   timeframeMinutes |-> timeframeMinutes,
                   value |-> predictFuturePrice(priceHistory, currentPrice, velocity,
                                                volatility, timeframeMinutes)]
        /\ UNCHANGED <<now, priceHistory, recorded>>

NextPredict ==
    \/ \E a \in FifoAnswers :
          Room("SOL/USD", a, PredictMaxRecords) /\ GetPrice("SOL/USD", a)
    \/ \E p \in Prices, v \in Velocities, vol \in Volatilities, tf \in Timeframes :
          PredictFuturePrice(p, v, vol, tf)

SpecPredict == Init /\ [][NextPredict]_vars

---------------------------------------------------------------------------
(* Properties of the price history (PriceService) *)

\* timestamps of a history never go back
NonDecreasing(history) ==
    \A i, j \in 1..Len(history) : i <= j => history[i].timestamp <= history[j].timestamp

\* the last k elements of a sequence
LastOf(seq, k) == SubSeq(seq, Len(seq) - k + 1, Len(seq))

\* C1: after any sequence of recordings, a symbol's history is exactly the most
\* recent min(n, 100) recorded samples in arrival order (n = samples recorded
\* since the last clear): at most 100 long, timestamps non-decreasing, and the
\* samples missing from it are the oldest ones.
C1_HistoryIsLastHundred ==
    \A s \in Symbols :
        /\ Len(priceHistory[s]) = Min(Len(recorded[s]), 100)
        /\ Len(priceHistory[s]) <= 100
        /\ priceHistory[s] = LastOf(recorded[s], Len(priceHistory[s]))
        /\ NonDecreasing(priceHistory[s])

\* an overflowing recording has happened: more than 100 samples were recorded,
\* the first at an earlier instant than the last
C1_Witness ==
    /\ ret.op = "getPrice"
    /\ Len(recorded["SOL/USD"]) > 100
    /\ Len(priceHistory["SOL/USD"]) = 100
    /\ recorded["SOL/USD"][1].timestamp < priceHistory["SOL/USD"][100].timestamp

\* C2: getPriceVelocity(symbol) returns null if and only if fewer than 2 samples
\* are stored for the symbol; with 2 or more it returns a populated struct for
\* that symbol whose currentPrice is the latest sample's price.
C2_VelocityAbsentIffFewerThanTwo ==
    ret.op = "getPriceVelocity" =>
        LET history == priceHistory[ret.symbol]
        IN  /\ (ret.value = Null) <=> (Len(history) < 2)
            /\ Len(history) >= 2 =>
                  /\ Len(ret.value) = 1
                  /\ DOMAIN ret.value[1] =
                        {"symbol", "currentPrice", "priceChange1min", "priceChange5min",
                         "priceChange15min", "velocityPerHour"}
                  /\ ret.value[1].symbol = ret.symbol
                  /\ ret.value[1].currentPrice = history[Len(history)].price

\* samples of 10 at t = 0 and 11 at t = 60 s: the velocity asked at t = 60 s is
\* populated and its 1-minute change is +10 %
C2_Witness ==
    /\ ret.op = "getPriceVelocity"
    /\ now = 60000
    /\ priceHistory[ret.symbol] = << [price |-> Fx(10), timestamp |-> 0],
                                     [price |-> Fx(11), timestamp |-> 60000] >>
    /\ ret.value # Null
    /\ ret.value[1].priceChange1min = Fx(10)

\* the distance of sample i of a history from a target instant
Distance(history, i, targetTime) == Abs(history[i].timestamp - targetTime)

\* the samples of a history that qualify for a lookback: less than 30 s from the target
Qualifying(history, targetTime) ==
    {i \in 1..Len(history) : Distance(history, i, targetTime) < 30000}

\* `change` is what a lookback must report: 0 when no sample qualifies, else the
\* percentage change from a qualifying sample that no sample is closer than
LookbackOk(history, targetTime, currentPrice, change) ==
    IF Qualifying(history, targetTime) = {}
    THEN change = 0
    ELSE \E i \in Qualifying(history, targetTime) :
            /\ \A j \in 1..Len(history) :
                  Distance(history, i, targetTime) <= Distance(history, j, targetTime)
            /\ change = (((currentPrice - history[i].price) * SCALE)
                            \div history[i].price) * 100

\* C3: for each of the 1-, 5- and 15-minute lookbacks getPriceVelocity uses the
\* stored sample closest to (now - lookback), and only if it is less than 30 s
\* from that instant; when no sample qualifies the horizon's change is 0 and the
\* velocity is still returned.
C3_LookbackClosestWithin30s ==
    (ret.op = "getPriceVelocity" /\ Len(priceHistory[ret.symbol]) >= 2) =>
        LET history == priceHistory[ret.symbol]
        IN  /\ ret.value # Null
            /\ LookbackOk(history, now - 60000, ret.value[1].currentPrice,
                          ret.value[1].priceChange1min)
            /\ LookbackOk(history, now - 300000, ret.value[1].currentPrice,
                          ret.value[1].priceChange5min)
            /\ LookbackOk(history, now - 900000, ret.value[1].currentPrice,
                          ret.value[1].priceChange15min)

\* a velocity whose 1-minute lookback found a sample that is not on the target
\* and moved the price, while the 5-minute lookback found none
C3_Witness ==
    /\ ret.op = "getPriceVelocity"
    /\ ret.value # Null
    /\ ret.value[1].priceChange1min # 0
    /\ \A i \in Qualifying(priceHistory[ret.symbol], now - 60000) :
          Distance(priceHistory[ret.symbol], i, now - 60000) > 0
    /\ Qualifying(priceHistory[ret.symbol], now - 300000) = {}
    /\ ret.value[1].priceChange5min = 0

\* the samples of a history inside the trailing window of windowMinutes
InsideWindow(history, windowMinutes) ==
    {i \in 1..Len(history) : now - history[i].timestamp < windowMinutes * 60000}

\* C4: getVolatility(symbol, w) returns 0 whenever fewer than 3 stored samples
\* of the symbol lie inside the trailing w-minute window (also with no history
\* at all), and it never returns a negative value.
C4_VolatilityZeroBelowThreeSamples ==
    ret.op = "getVolatility" =>
        /\ ret.value >= 0
        /\ Cardinality(InsideWindow(priceHistory[ret.symbol], ret.windowMinutes)) < 3
              => ret.value = 0

\* three samples of different prices are stored, fewer than three of them are
\* inside the window asked for, and the volatility returned is 0
C4_Witness ==
    /\ ret.op = "getVolatility"
    /\ Len(priceHistory[ret.symbol]) >= 3
    /\ \E i, j \in 1..Len(priceHistory[ret.symbol]) :
          priceHistory[ret.symbol][i].price # priceHistory[ret.symbol][j].price
    /\ Cardinality(InsideWindow(priceHistory[ret.symbol], ret.windowMinutes)) < 3
    /\ ret.value = 0

\* every stored sample of a history has the same positive price
ConstantPrice(history) ==
    \A i \in 1..Len(history) : history[i].price = history[1].price /\ history[i].price > 0

\* C5: when every stored sample of a symbol (3 or more) has the same positive
\* price, getVolatility returns exactly 0 for it, whatever the window.
C5_ConstantPriceZeroVolatility ==
    (/\ ret.op = "getVolatility"
     /\ Len(priceHistory[ret.symbol]) >= 3
     /\ ConstantPrice(priceHistory[ret.symbol])) => ret.value = 0

\* the volatility of three equal prices that are all inside the window was asked
C5_Witness ==
    /\ ret.op = "getVolatility"
    /\ Len(priceHistory[ret.symbol]) >= 3
    /\ ConstantPrice(priceHistory[ret.symbol])
    /\ Cardinality(InsideWindow(priceHistory[ret.symbol], ret.windowMinutes)) >= 3
    /\ ret.value = 0

---------------------------------------------------------------------------
(* Properties of the calculator (utils/ilCalculator) *)

C7_WorthwhileIffStrictlyAbove ==
    ret.op = "isRebalanceWorthwhile" =>
        LET v == ret.predictedILValue
            g == ret.estimatedGasCostUSD
            m == ret.minSavingsMultiplier
        IN  /\ ret.value <=> (Abs(v) * SCALE > g * m)
            /\ (Abs(v) = Fx(250) /\ g = Fx(2) /\ m = Fx(10)) => ret.value
            /\ (Abs(v) = Fx(15) /\ g = Fx(2) /\ m = Fx(10)) => ~ret.value
            /\ (Abs(v) = Fx(20) /\ g = Fx(2) /\ m = Fx(10)) => ~ret.value
            /\ ret.value = isRebalanceWorthwhile(0 - v, g, m)

\* the boundary was asked: savings of exactly 20 against 2 * 10, and the answer was no
C7_Witness ==
    /\ ret.op = "isRebalanceWorthwhile"
    /\ ret.predictedILValue = Fx(20)
    /\ ret.estimatedGasCostUSD = Fx(2)
    /\ ret.minSavingsMultiplier = Fx(10)
    /\ ret.value = FALSE

---------------------------------------------------------------------------
(* Properties of the predictor (ILPredictor) *)

\* C8: predictIL(symbol, config) returns null exactly when the price fetch for
\* the symbol yields no price or the velocity of the symbol is absent; in every
\* other case it returns an ILPrediction (for that symbol, at the fetched price).
C8_PredictionAbsentIffNoPriceOrNoVelocity ==
    ret.op = "predictIL" =>
        LET noPrice    == ret.symbol \notin PRICE_FEED_IDS \/ ret.answer = Null
            noVelocity == Len(priceHistory[ret.symbol]) < 2
        IN  /\ (ret.value = Null) <=> (noPrice \/ noVelocity)
            /\ ret.value # Null =>
                  /\ ret.value[1].symbol = ret.symbol
                  /\ ret.value[1].currentPrice = ret.answer[1]
                  /\ ret.value[1].predictionTimeframe = ret.config.timeframeMinutes

\* a predictIL whose fetch gave a price returned null, the sample it recorded
\* being the only one
C8_Witness ==
    /\ ret.op = "predictIL"
    /\ ret.answer # Null
    /\ Len(priceHistory[ret.symbol]) = 1
    /\ ret.value = Null

\* what predictIL computed from: the velocity and volatility of the state it left
VelocityNow == VelocityOf(priceHistory[ret.symbol], now, ret.symbol)

VolatilityNow ==
    getVolatility(priceHistory, now, ret.symbol, ret.config.timeframeMinutes)

ExpectedChangeNow == ExpectedChange(VelocityNow, ret.config.timeframeMinutes)

\* the blend of predictFuturePrice with no volatility adjustment in it
UnadjustedPrice ==
    LET velocityPrediction == VelocityPrediction(ret.value[1].currentPrice, ExpectedChangeNow)
    IN  Max(FxMul(velocityPrediction, VELOCITY_WEIGHT)
              + FxMul(velocityPrediction, VOLATILITY_WEIGHT), 0)

\* the size of the volatility adjustment's share of the predicted price
AdjustmentShare ==
    FxMul(FxMul(ret.value[1].currentPrice, VolatilityNow \div 100), VOLATILITY_WEIGHT)

\* C9 as stated: the sign of the volatility adjustment is +1 when the expected
\* change is >= 0, so with zero velocity and positive volatility the predicted
\* price is not below the current price.
C9_AsStated ==
    (/\ ret.op = "predictIL"
     /\ ret.value # Null
     /\ VelocityNow.velocityPerHour = 0
     /\ VolatilityNow > 0) => ret.value[1].predictedPrice >= ret.value[1].currentPrice

\* C9, amended: the volatility adjustment moves the predicted price up only when
\* the expected change is > 0 and down otherwise, an expected change of 0
\* included; so with zero velocity and positive volatility the predicted price is
\* never above the current price, and below it as soon as the adjustment shows.
C9_AdjustmentDownUnlessRising ==
    (ret.op = "predictIL" /\ ret.value # Null) =>
        /\ ExpectedChangeNow > 0 => ret.value[1].predictedPrice >= UnadjustedPrice
        /\ ExpectedChangeNow <= 0 => ret.value[1].predictedPrice <= UnadjustedPrice
        /\ (ExpectedChangeNow <= 0 /\ AdjustmentShare > 0)
              => ret.value[1].predictedPrice < UnadjustedPrice
        /\ VelocityNow.velocityPerHour = 0 =>
              /\ ret.value[1].predictedPrice <= ret.value[1].currentPrice
              /\ AdjustmentShare > 0 =>
                    ret.value[1].predictedPrice < ret.value[1].currentPrice

\* a prediction made at zero velocity and positive volatility came out below the
\* current price
C9_Witness ==
    /\ ret.op = "predictIL"
    /\ ret.value # Null
    /\ VelocityNow.velocityPerHour = 0
    /\ VolatilityNow > 0
    /\ ret.value[1].predictedPrice < ret.value[1].currentPrice

\* C10: the confidence of a prediction is an integer in [0, 100] equal to
\* round(max(0, 100 - 5 * volatility) * min(historySize / 50, 1)); it never
\* increases when volatility increases, never decreases when the history grows,
\* and no longer changes from 50 samples on.
C10_ConfidenceRoundedAndMonotone ==
    ret.op = "predictFuturePrice" =>
        LET c   == ret.value.confidence
            vol == ret.volatility
            n   == Len(priceHistory[ret.velocity.symbol])
            \* max(0, 100 - 5 vol) * min(n / 50, 1)  =  num / den
            num == Max(0, 100 * SCALE - 5 * vol) * Min(n, 50)
            den == 50 * SCALE
        IN  /\ c \in 0..100
            /\ (2 * c - 1) * den <= 2 * num
            /\ 2 * num < (2 * c + 1) * den
            /\ \A vol2 \in Volatilities : vol2 >= vol => Confidence(vol2, n) <= c
            /\ \A n2 \in 0..(PredictMaxRecords + 1) : n2 >= n => Confidence(vol, n2) >= c
            /\ n >= 50 => c = Confidence(vol, 50)

\* a confidence computed past saturation (more than 50 samples) at a volatility
\* that lowers it: strictly between 0 and 100
C10_Witness ==
    /\ ret.op = "predictFuturePrice"
    /\ Len(priceHistory[ret.velocity.symbol]) > 50
    /\ ret.volatility > 0
    /\ ret.value.confidence > 0
    /\ ret.value.confidence < 100

---------------------------------------------------------------------------
(* calculateRiskLevel on its own and inside predictIL, over predicted losses in
   every bucket *)

\* samples recorded in these runs
LevelMaxRecords == 2

\* the percentages handed to calculateRiskLevel: -8 % to 8 % by tenths, and the
\* values next to each threshold
ILPercentages ==
    {i * 100 : i \in (0 - 80)..80}
        \cup {Fx(2) - 1, Fx(2) + 1, Fx(4) - 1, Fx(4) + 1, Fx(6) - 1, Fx(6) + 1}

\* positions entered at prices that put the predicted loss in each bucket
LevelConfigs ==
    {[timeframeMinutes |-> 30, positionValueUSD |-> Fx(1000), entryPrice |-> e] :
        e \in {Fx(10), 6500, 5500, Fx(4)}}

CalculateRiskLevel(ilPercentage) ==
    /\ UNCHANGED asyncVars
    /\ ret' = [op |-> "calculateRiskLevel", ilPercentage |-> ilPercentage,
               value |-> calculateRiskLevel(ilPercentage)]
    /\ UNCHANGED <<now, priceHistory, recorded>>

NextLevels ==
    \/ \E a \in Answers : Room("SOL/USD", a, LevelMaxRecords) /\ GetPrice("SOL/USD", a)
    \/ \E c \in LevelConfigs, a \in Answers :
          Room("SOL/USD", a, LevelMaxRecords) /\ PredictIL("SOL/USD", c, a)
    \/ \E il \in ILPercentages : CalculateRiskLevel(il)

SpecLevels == Init /\ [][NextLevels]_vars

\* the level that the half-open buckets give a loss of absIL percent
IsBucketOf(level, absIL) ==
    /\ (level = "low") <=> (absIL < 2 * SCALE)
    /\ (level = "medium") <=> (2 * SCALE <= absIL /\ absIL < 4 * SCALE)
    /\ (level = "high") <=> (4 * SCALE <= absIL /\ absIL < 6 * SCALE)
    /\ (level = "critical") <=> (6 * SCALE <= absIL)

---------------------------------------------------------------------------
(* RiskScoringEngine (services/riskScoring) *)

\* the risk weights 0.3, 0.4, 0.2, 0.1
WEIGHTS == [currentIL |-> 300, predictedIL |-> 400, outOfRange |-> 200, volatility |-> 100]

\* 0.01 USD
GAS_COST_USD == 10

MIN_SAVINGS_MULTIPLIER == 10

\* a Map of histories read under a key it may not hold: priceHistory.get(key)
\* is undefined there, which getVolatility treats like an empty history
WithKey(ph, key) ==
    [s \in DOMAIN ph \cup {key} |-> IF s \in DOMAIN ph THEN ph[s] ELSE <<>>]

\* normalizeIL without the cap at 100
normalizeIL_NoCap(ilPercentage) == FxDiv(ilPercentage, Fx(10)) * 100

\* normalizeIL: 0 % is 0, 10 % and more is 100
normalizeIL(ilPercentage) == Min(FxDiv(ilPercentage, Fx(10)) * 100, Fx(100))

\* normalizeVolatility: 0 % is 0, 5 % and more is 100
normalizeVolatility(volatility) == Min(FxDiv(volatility, Fx(5)) * 100, Fx(100))

\* getRiskLevel(score)
getRiskLevel(score) ==
    IF score >= Fx(75) THEN "critical"
    ELSE IF score >= Fx(50) THEN "high"
    ELSE IF score >= Fx(25) THEN "medium"
    ELSE "low"

\* the PredictionConfig that the engine asks a prediction with
EngineConfig(position) ==
    [timeframeMinutes |-> 30,
     positionValueUSD |-> position.totalValueUSD,
     entryPrice       |-> position.currentPrice]

\* the predicted-IL score that counts a missing prediction as the worst case
PredictedILScore_AbsentIsWorst(prediction) ==
    IF prediction # Null
    THEN normalizeIL(Abs(prediction[1].predictedILPercentage))
    ELSE Fx(100)

\* the predicted-IL component of the score
PredictedILScore(prediction) ==
    IF prediction # Null
    THEN normalizeIL(Abs(prediction[1].predictedILPercentage))
    ELSE 0

\* the decision of shouldRebalance with >= for >
RebalanceDecision_Ge(prediction) ==
    IF prediction = Null
    THEN [shouldRebalance     |-> FALSE,
          reason              |-> "Unable to predict IL - insufficient data",
          expectedILPrevented |-> 0,
          estimatedGasCost    |-> GAS_COST_USD,
          netSavings          |-> 0 - GAS_COST_USD,
          confidence          |-> 0]
    ELSE LET expectedILValue == Abs(prediction[1].predictedILValue)
             ilPrevented     == FxMul(expectedILValue, 700)
             minSavings      == GAS_COST_USD * MIN_SAVINGS_MULTIPLIER
             worthwhile      == ilPrevented >= minSavings
         IN  [shouldRebalance     |-> worthwhile,
              reason              |->
                  IF worthwhile THEN "Rebalancing will prevent $.. IL at $.. cost (..x return)"
                  ELSE IF expectedILValue < Fx(1)
                       THEN "Predicted IL is negligible - not worth rebalancing"
                  ELSE "Predicted IL ($..) too small compared to gas cost ($..)",
              expectedILPrevented |-> ilPrevented,
              estimatedGasCost    |-> GAS_COST_USD,
              netSavings          |-> ilPrevented - GAS_COST_USD,
              confidence          |-> prediction[1].confidence]

\* the RebalanceDecision that shouldRebalance builds from its prediction; the
\* reason is the message with its amounts left out
RebalanceDecision(prediction) ==
    IF prediction = Null
    THEN [shouldRebalance     |-> FALSE,
          reason              |-> "Unable to predict IL - insufficient data",
          expectedILPrevented |-> 0,
          estimatedGasCost    |-> GAS_COST_USD,
          netSavings          |-> 0 - GAS_COST_USD,
          confidence          |-> 0]
    ELSE LET expectedILValue == Abs(prediction[1].predictedILValue)
             ilPrevented     == FxMul(expectedILValue, 700)
             minSavings      == GAS_COST_USD * MIN_SAVINGS_MULTIPLIER
             worthwhile      == ilPrevented > minSavings
         IN  [shouldRebalance     |-> worthwhile,
              reason              |->
                  IF worthwhile THEN "Rebalancing will prevent $.. IL at $.. cost (..x return)"
                  ELSE IF expectedILValue < Fx(1)
                       THEN "Predicted IL is negligible - not worth rebalancing"
                  ELSE "Predicted IL ($..) too small compared to gas cost ($..)",
              expectedILPrevented |-> ilPrevented,
              estimatedGasCost    |-> GAS_COST_USD,
              netSavings          |-> ilPrevented - GAS_COST_USD,
              confidence          |-> prediction[1].confidence]

\* shouldRebalance(position) when the feed answers `answer`: the histories
\* afterwards, the prediction it obtained and the RebalanceDecision returned
shouldRebalance(ph, t, position, answer) ==
    LET predicted == predictIL(ph, t, position.tokenA.symbol, EngineConfig(position), answer)
    IN  [history    |-> predicted.history,
         prediction |-> predicted.value,
         value      |-> RebalanceDecision(predicted.value)]

\* the decision tree with the out-of-range rule tried last
Recommendation_RangeLast(position, prediction, volatility, rebalanceDecision) ==
    LET absIL == IF prediction = Null THEN 0 ELSE Abs(prediction[1].predictedILPercentage)
    IN  IF prediction # Null /\ absIL > Fx(6)
        THEN [action    |-> IF rebalanceDecision.shouldRebalance THEN "rebalance" ELSE "exit",
              urgency   |-> "critical",
              reasoning |-> <<"Severe IL predicted (..%).", rebalanceDecision.reason>>]
        ELSE IF prediction # Null /\ absIL > Fx(4) /\ volatility > Fx(3)
        THEN [action    |-> IF rebalanceDecision.shouldRebalance THEN "widen_range" ELSE "monitor",
              urgency   |-> "high",
              reasoning |-> <<"High IL risk (..%) + high volatility.", rebalanceDecision.reason>>]
        ELSE IF prediction # Null /\ absIL > Fx(2)
        THEN [action    |-> "monitor",
              urgency   |-> "medium",
              reasoning |-> <<"Moderate IL predicted (..%). Monitor closely.">>]
        ELSE IF ~position.inRange
        THEN [action    |-> "rebalance",
              urgency   |-> "critical",
              reasoning |-> <<"Position OUT OF RANGE. Not earning fees.", rebalanceDecision.reason>>]
        ELSE [action    |-> "monitor",
              urgency   |-> "low",
              reasoning |-> <<"Position healthy. IL: ..%, Net P&L: $..">>]

\* the decision tree with its thresholds taken inclusively
Recommendation_Inclusive(position, prediction, volatility, rebalanceDecision) ==
    LET absIL == IF prediction = Null THEN 0 ELSE Abs(prediction[1].predictedILPercentage)
    IN  IF ~position.inRange
        THEN [action    |-> "rebalance",
              urgency   |-> "critical",
              reasoning |-> <<"Position OUT OF RANGE. Not earning fees.", rebalanceDecision.reason>>]
        ELSE IF prediction # Null /\ absIL >= Fx(6)
        THEN [action    |-> IF rebalanceDecision.shouldRebalance THEN "rebalance" ELSE "exit",
              urgency   |-> "critical",
              reasoning |-> <<"Severe IL predicted (..%).", rebalanceDecision.reason>>]
        ELSE IF prediction # Null /\ absIL >= Fx(4) /\ volatility >= Fx(3)
        THEN [action    |-> IF rebalanceDecision.shouldRebalance THEN "widen_range" ELSE "monitor",
              urgency   |-> "high",
              reasoning |-> <<"High IL risk (..%) + high volatility.", rebalanceDecision.reason>>]
        ELSE IF prediction # Null /\ absIL >= Fx(2)
        THEN [action    |-> "monitor",
              urgency   |-> "medium",
              reasoning |-> <<"Moderate IL predicted (..%). Monitor closely.">>]
        ELSE [action    |-> "monitor",
              urgency   |-> "low",
              reasoning |-> <<"Position healthy. IL: ..%, Net P&L: $..">>]

\* the decision tree whose severe rule recommends a rebalance whatever the decision
Recommendation_SevereAlwaysRebalance(position, prediction, volatility, rebalanceDecision) ==
    LET absIL == IF prediction = Null THEN 0 ELSE Abs(prediction[1].predictedILPercentage)
    IN  IF ~position.inRange
        THEN [action    |-> "rebalance",
              urgency   |-> "critical",
              reasoning |-> <<"Position OUT OF RANGE. Not earning fees.", rebalanceDecision.reason>>]
        ELSE IF prediction # Null /\ absIL > Fx(6)
        THEN [action    |-> "rebalance",
              urgency   |-> "critical",
              reasoning |-> <<"Severe IL predicted (..%).", rebalanceDecision.reason>>]
        ELSE IF prediction # Null /\ absIL > Fx(4) /\ volatility > Fx(3)
        THEN [action    |-> IF rebalanceDecision.shouldRebalance THEN "widen_range" ELSE "monitor",
              urgency   |-> "high",
              reasoning |-> <<"High IL risk (..%) + high volatility.", rebalanceDecision.reason>>]
        ELSE IF prediction # Null /\ absIL > Fx(2)
        THEN [action    |-> "monitor",
              urgency   |-> "medium",
              reasoning |-> <<"Moderate IL predicted (..%). Monitor closely.">>]
        ELSE [action    |-> "monitor",
              urgency   |-> "low",
              reasoning |-> <<"Position healthy. IL: ..%, Net P&L: $..">>]

\* the decision tree of generateRecommendation: action, urgency and the parts
\* of the reasoning text (amounts left out), first match first
Recommendation(position, prediction, volatility, rebalanceDecision) ==
    LET absIL == IF prediction = Null THEN 0 ELSE Abs(prediction[1].predictedILPercentage)
    IN  IF ~position.inRange
        THEN [action    |-> "rebalance",
              urgency   |-> "critical",
              reasoning |-> <<"Position OUT OF RANGE. Not earning fees.", rebalanceDecision.reason>>]
        ELSE IF prediction # Null /\ absIL > Fx(6)
        THEN [action    |-> IF rebalanceDecision.shouldRebalance THEN "rebalance" ELSE "exit",
              urgency   |-> "critical",
              reasoning |-> <<"Severe IL predicted (..%).", rebalanceDecision.reason>>]
        ELSE IF prediction # Null /\ absIL > Fx(4) /\ volatility > Fx(3)
        THEN [action    |-> IF rebalanceDecision.shouldRebalance THEN "widen_range" ELSE "monitor",
              urgency   |-> "high",
              reasoning |-> <<"High IL risk (..%) + high volatility.", rebalanceDecision.reason>>]
        ELSE IF prediction # Null /\ absIL > Fx(2)
        THEN [action    |-> "monitor",
              urgency   |-> "medium",
              reasoning |-> <<"Moderate IL predicted (..%). Monitor closely.">>]
        ELSE [action    |-> "monitor",
              urgency   |-> "low",
              reasoning |-> <<"Position healthy. IL: ..%, Net P&L: $..">>]

\* RiskScoringEngine.generateRecommendation(position, prediction, riskScore,
\* volatility): it asks shouldRebalance, which fetches and predicts again
RiskScoringEngine_generateRecommendation(ph, t, position, prediction, riskScore, volatility, answer) ==
    LET decided           == shouldRebalance(ph, t, position, answer)
        rebalanceDecision == decided.value
        rule == Recommendation(position, prediction, volatility, rebalanceDecision)
    IN  [history |-> decided.history,
         value   |-> [action           |-> rule.action,
                      urgency          |-> rule.urgency,
                      reasoning        |-> rule.reasoning,
                      expectedSavings  |-> rebalanceDecision.expectedILPrevented,
                      estimatedGasCost |-> rebalanceDecision.estimatedGasCost,
                      worthRebalancing |-> rebalanceDecision.shouldRebalance]]

\* the volatility that calculateRiskScore reads: 15 minutes of "<tokenA>/USD"
EngineVolatility(ph, t, position) ==
    getVolatility(WithKey(ph, position.tokenA.symbol \o "/USD"), t,
                  position.tokenA.symbol \o "/USD", 15)

\* the weighted risk score, before rounding
WeightedScore(position, prediction, volatility) ==
    LET currentILScore   == normalizeIL(Abs(position.currentIL))
        predictedILScore == PredictedILScore(prediction)
        outOfRangeScore  == IF position.inRange THEN 0 ELSE Fx(100)
        volatilityScore  == normalizeVolatility(volatility)
    IN    FxMul(currentILScore, WEIGHTS.currentIL)
        + FxMul(predictedILScore, WEIGHTS.predictedIL)
        + FxMul(outOfRangeScore, WEIGHTS.outOfRange)
        + FxMul(volatilityScore, WEIGHTS.volatility)

\* the RiskScore returned, and the histories left by the recommendation's fetch
RiskScoreOf(t, position, prediction, volatility, riskScore, recommendation) ==
    [history |-> recommendation.history,
     value   |->
        [positionId     |-> position.positionMint,
         overallRisk    |-> getRiskLevel(riskScore),
         riskScore      |-> FxRound(riskScore),
         components     |->
            [currentIL   |-> position.currentIL,
             predictedIL |-> IF prediction # Null /\ prediction[1].predictedILPercentage # 0
                             THEN prediction[1].predictedILPercentage ELSE 0,
             outOfRange  |-> ~position.inRange,
             volatility  |-> volatility],
         recommendation |-> recommendation.value,
         prediction     |-> prediction,
         position       |-> position,
         timestamp      |-> t]]

\* calculateRiskScore from the weighted score on: the recommendation, then the result
Recommended(t, position, predicted, volatility, riskScore, again) ==
    RiskScoreOf(t, position, predicted.value, volatility, riskScore,
                RiskScoringEngine_generateRecommendation(
                    predicted.history, t, position, predicted.value, riskScore,
                    volatility, again))

\* calculateRiskScore from the volatility on
Scored(t, position, predicted, volatility, again) ==
    Recommended(t, position, predicted, volatility,
                WeightedScore(position, predicted.value, volatility), again)

\* calculateRiskScore from its prediction on
Assessed(t, position, predicted, again) ==
    Scored(t, position, predicted, EngineVolatility(predicted.history, t, position), again)

\* calculateRiskScore(position) when the feed answers `answer` to the fetch of
\* its own prediction and `again` to the fetch made for the recommendation
calculateRiskScore(ph, t, position, answer, again) ==
    Assessed(t, position,
             predictIL(ph, t, position.tokenA.symbol, EngineConfig(position), answer),
             again)

---------------------------------------------------------------------------
(* The engine's operations, over positions of every kind *)

\* samples recorded in these runs
EngineMaxRecords == 3

\* the token symbols positions are created with: the bare token, as the engine's
\* callers pass it, and the feed's own key
TokenSymbols == {"SOL", "SOL/USD"}

\* current IL, value and entry price of the positions
PositionKinds ==
    { [currentIL |-> 0,          totalValueUSD |-> Fx(1000), currentPrice |-> Fx(10)],
      [currentIL |-> 0 - 8200,   totalValueUSD |-> Fx(1000), currentPrice |-> Fx(10)],
      [currentIL |-> 0 - Fx(12), totalValueUSD |-> Fx(1000), currentPrice |-> Fx(4)],
      [currentIL |-> 0 - Fx(3),  totalValueUSD |-> Fx(1000), currentPrice |-> 5500],
      [currentIL |-> 0,          totalValueUSD |-> Fx(1),    currentPrice |-> 5500],
      [currentIL |-> 0 - 8200,   totalValueUSD |-> Fx(1),    currentPrice |-> Fx(4)] }

\* the LPPositions handed to the engine (the fields it reads)
Positions ==
    {[positionMint  |-> "position-1",
      tokenA        |-> [symbol |-> s],
      tokenB        |-> [symbol |-> "USDC"],
      currentIL     |-> k.currentIL,
      netPnL        |-> 0,
      inRange       |-> r,
      totalValueUSD |-> k.totalValueUSD,
      currentPrice  |-> k.currentPrice] :
        s \in TokenSymbols, r \in BOOLEAN, k \in PositionKinds}

\* what the feed answers to the fetch made for the recommendation
AnswersAgain == {Null, Some(Fx(10))}

\* an ILPrediction of a loss of il percent on a position worth value
DrawnPrediction(il, value) ==
    LET velocity == [symbol |-> "SOL/USD", currentPrice |-> Fx(10), priceChange1min |-> 0,
                     priceChange5min |-> 0, priceChange15min |-> 0, velocityPerHour |-> 0]
    IN  [symbol                |-> "SOL/USD",
         currentPrice          |-> Fx(10),
         predictedPrice        |-> Fx(10),
         predictionTimeframe   |-> 30,
         predictedILPercentage |-> il,
         predictedILValue      |-> FxMul(value, il \div 100),
         confidence            |-> 50,
         riskLevel             |-> calculateRiskLevel(Abs(il)),
         recommendation        |-> generateRecommendation(calculateRiskLevel(Abs(il)), il,
                                                          velocity)]

\* the predictions handed to the parts of the engine: none, and losses on and
\* next to each threshold, worth just below and just above 10 times the gas
DrawnPredictions ==
    {Null} \cup
    {Some(DrawnPrediction(il, value)) :
        il \in {0, 0 - Fx(2), 0 - (Fx(2) + 1), 0 - Fx(4), 0 - (Fx(4) + 1),
                0 - Fx(6), 0 - (Fx(6) + 1), 0 - Fx(9)},
        value \in {Fx(1), 2383, 2417, Fx(1000)}}

EngineVolatilities == {0, Fx(3), Fx(3) + 1, Fx(8)}

\* what the decision tree is tried on: a position in range and one out of range,
\* predictions of every loss, and a decision either way
RecommendPositions ==
    {p \in Positions : /\ p.tokenA.symbol = "SOL" /\ p.currentIL = 0
                       /\ p.totalValueUSD = Fx(1000)}

RecommendPredictions ==
    {q \in DrawnPredictions : q = Null \/ q = Some(DrawnPrediction(q[1].predictedILPercentage, Fx(1000)))}

DecidedOn == {Null, Some(DrawnPrediction(0 - Fx(9), Fx(1000)))}

\* room for n more samples of symbol under the bound
RoomFor(symbol, n, bound) ==
    symbol \in PRICE_FEED_IDS => Len(recorded[symbol]) + n <= bound

\* the samples that a fetch answered `answer` records for symbol
Sampled(symbol, answer, t) ==
    IF symbol \in PRICE_FEED_IDS /\ answer # Null
    THEN <<[price |-> answer[1], timestamp |-> t]>>
    ELSE <<>>

\* calculateRiskScore(position): from the resolution of its first fetch to its return
CalculateRiskScore(position, answer, again) ==
    LET r == calculateRiskScore(priceHistory, now, position, answer, again)
        symbol == position.tokenA.symbol
    IN  /\ priceHistory' = r.history
        /\ recorded' = IF symbol \in DOMAIN recorded
                        THEN [recorded EXCEPT ![symbol] =
                                 @ \o Sampled(symbol, answer, now) \o Sampled(symbol, again, now)]
                        ELSE recorded
        /\ UNCHANGED asyncVars
        /\ ret' = [op |-> "calculateRiskScore", position |-> position,
                   answer |-> answer, again |-> again, value |-> r.value]
        /\ UNCHANGED now

\* shouldRebalance(position)
ShouldRebalance(position, answer) ==
    LET r == shouldRebalance(priceHistory, now, position, answer)
        symbol == position.tokenA.symbol
    IN  /\ priceHistory' = r.history
        /\ recorded' = IF symbol \in DOMAIN recorded
                        THEN [recorded EXCEPT ![symbol] = @ \o Sampled(symbol, answer, now)]
                        ELSE recorded
        /\ UNCHANGED asyncVars
        /\ ret' = [op |-> "shouldRebalance", position |-> position, answer |-> answer,
                   prediction |-> r.prediction, value |-> r.value]
        /\ UNCHANGED now

\* the decision of shouldRebalance on a prediction it was given
DecideRebalance(prediction) ==
    /\ UNCHANGED asyncVars
    /\ ret' = [op |-> "decideRebalance", prediction |-> prediction,
               value |-> RebalanceDecision(prediction)]
    /\ UNCHANGED <<now, priceHistory, recorded>>

\* the decision tree of generateRecommendation on the values it was given
Recommend(position, prediction, volatility, decidedOn) ==
    /\ UNCHANGED asyncVars
    /\ ret' = [op |-> "recommend", position |-> position, prediction |-> prediction,
               volatility |-> volatility, rebalanceDecision |-> RebalanceDecision(decidedOn),
               value |-> Recommendation(position, prediction, volatility,
                                        RebalanceDecision(decidedOn))]
    /\ UNCHANGED <<now, priceHistory, recorded>>

NextEngine ==
    \/ \E a \in Answers : Room("SOL/USD", a, EngineMaxRecords) /\ GetPrice("SOL/USD", a)
    \/ \E p \in Positions, a \in Answers, b \in AnswersAgain :
          RoomFor(p.tokenA.symbol, 2, EngineMaxRecords) /\ CalculateRiskScore(p, a, b)

SpecEngine == Init /\ [][NextEngine]_vars

---------------------------------------------------------------------------
(* shouldRebalance and the decision tree, on predictions of every size *)

NextDecide ==
    \/ \E a \in Answers : Room("SOL/USD", a, EngineMaxRecords) /\ GetPrice("SOL/USD", a)
    \/ \E p \in Positions, a \in Answers :
          RoomFor(p.tokenA.symbol, 1, EngineMaxRecords) /\ ShouldRebalance(p, a)
    \/ \E q \in DrawnPredictions : DecideRebalance(q)
    \/ \E p \in RecommendPositions, q \in RecommendPredictions, v \in EngineVolatilities,
          d \in DecidedOn : Recommend(p, q, v, d)

SpecDecide == Init /\ [][NextDecide]_vars

---------------------------------------------------------------------------
(* Properties of the risk engine (RiskScoringEngine) *)

\* the weighted sum 0.30 normIL(|currentIL|) + 0.40 normIL(|predictedIL|)
\* + 0.20 (inRange ? 0 : 100) + 0.10 normVol(volatility) of a returned RiskScore,
\* in millionths, from its position, its prediction and its volatility component
WeightedSum(score) ==
    LET predictedIL == IF score.prediction = Null THEN 0
                       ELSE Abs(score.prediction[1].predictedILPercentage)
    IN  (  3 * Min(10 * Abs(score.position.currentIL), 100 * SCALE)
         + 4 * Min(10 * predictedIL, 100 * SCALE)
         + 2 * (IF score.position.inRange THEN 0 ELSE 100 * SCALE)
         + 1 * Min(20 * score.components.volatility, 100 * SCALE)) * 100

\* r is the integer nearest to a sum given in millionths (halves go up)
NearestInteger(r, sum) ==
    /\ (2 * r - 1) * 500000 <= sum
    /\ sum < (2 * r + 1) * 500000

\* the fields of a RiskScore
RiskScoreFields ==
    {"positionId", "overallRisk", "riskScore", "components", "recommendation",
     "prediction", "position", "timestamp"}

\* C15: calculateRiskScore(position) always returns a RiskScore; when the
\* prediction is absent, components.predictedIL is 0 and the predicted-IL
\* component adds nothing to the score.
C15_ScoreWithoutPrediction ==
    ret.op = "calculateRiskScore" =>
        /\ DOMAIN ret.value = RiskScoreFields
        /\ ret.value.positionId = ret.position.positionMint
        /\ ret.value.position = ret.position
        /\ ret.value.riskScore \in 0..100
        /\ ret.value.prediction = Null =>
              /\ ret.value.components.predictedIL = 0
              /\ NearestInteger(ret.value.riskScore,
                    (  3 * Min(10 * Abs(ret.position.currentIL), 100 * SCALE)
                     + 2 * (IF ret.position.inRange THEN 0 ELSE 100 * SCALE)
                     + 1 * Min(20 * ret.value.components.volatility, 100 * SCALE)) * 100)

\* a position on the feed's key was scored when its fetch gave the first sample
\* of the symbol: no prediction, and a score that is not 0
C15_Witness ==
    /\ ret.op = "calculateRiskScore"
    /\ ret.position.tokenA.symbol \in PRICE_FEED_IDS
    /\ ret.answer # Null
    /\ ret.value.prediction = Null
    /\ ret.value.components.predictedIL = 0
    /\ ret.value.riskScore > 0

\* C16 as stated: the riskScore of the returned RiskScore lies in [0, 100] and
\* equals the weighted sum of the capped components.
C16_AsStated ==
    ret.op = "calculateRiskScore" =>
        /\ ret.value.riskScore >= 0
        /\ ret.value.riskScore <= 100
        /\ ret.value.riskScore * SCALE * SCALE = WeightedSum(ret.value)

\* C16, amended: the riskScore of the returned RiskScore is an integer in
\* [0, 100], the weighted sum 0.30 normIL(|currentIL|) + 0.40 normIL(|predictedIL|)
\* + 0.20 (inRange ? 0 : 100) + 0.10 normVol(volatility) of the capped components
\* rounded to the nearest integer.
C16_ScoreIsRoundedWeightedSum ==
    ret.op = "calculateRiskScore" =>
        /\ ret.value.riskScore \in 0..100
        /\ WeightedSum(ret.value) >= 0
        /\ WeightedSum(ret.value) <= 100 * SCALE * SCALE
        /\ NearestInteger(ret.value.riskScore, WeightedSum(ret.value))

\* an out-of-range position with a prediction got a score whose weighted sum is
\* no integer and has a capped component in it
C16_Witness ==
    /\ ret.op = "calculateRiskScore"
    /\ ret.value.prediction # Null
    /\ ~ret.position.inRange
    /\ Abs(ret.position.currentIL) > 10 * SCALE
    /\ ret.value.riskScore * SCALE * SCALE # WeightedSum(ret.value)

\* the bucket of a reported score, lower bounds included
BucketOfScore(riskScore) ==
    IF riskScore >= 75 THEN "critical"
    ELSE IF riskScore >= 50 THEN "high"
    ELSE IF riskScore >= 25 THEN "medium"
    ELSE "low"

\* C17: in every returned RiskScore, overallRisk is the bucket of the reported
\* riskScore: critical from 75, high from 50 to below 75, medium from 25 to
\* below 50, low below 25.
C17_OverallRiskIsBucketOfReportedScore ==
    ret.op = "calculateRiskScore" =>
        ret.value.overallRisk = BucketOfScore(ret.value.riskScore)

C18_RebalanceDecision ==
    ret.op \in {"shouldRebalance", "decideRebalance"} =>
        LET decision == ret.value
        IN  IF ret.prediction = Null
            THEN /\ ~decision.shouldRebalance
                 /\ decision.expectedILPrevented = 0
                 /\ decision.confidence = 0
                 /\ decision.reason # ""
            ELSE LET loss == Abs(ret.prediction[1].predictedILValue)
                 IN  /\ SCALE * decision.expectedILPrevented <= 700 * loss
                     /\ 700 * loss < SCALE * (decision.expectedILPrevented + 1)
                     /\ decision.netSavings
                           = decision.expectedILPrevented - decision.estimatedGasCost
                     /\ decision.shouldRebalance
                           <=> (decision.expectedILPrevented > 10 * decision.estimatedGasCost)
                     /\ decision.reason # ""

\* shouldRebalance obtained a prediction and found the rebalance worthwhile
C18_Witness ==
    /\ ret.op = "shouldRebalance"
    /\ ret.prediction # Null
    /\ ret.value.shouldRebalance
    /\ ret.value.expectedILPrevented > 10 * ret.value.estimatedGasCost
    /\ ret.value.netSavings > 0

\* C20: for a position in range the recommendation is that of the first rule
\* that matches: |predictedIL| > 6: critical, rebalance if worthwhile else exit;
\* |predictedIL| > 4 and volatility > 3: high, widen_range if worthwhile else
\* monitor; |predictedIL| > 2: monitor, medium; otherwise, and with no
\* prediction: monitor, low.
C20_FirstMatchingRule ==
    (ret.op = "recommend" /\ ret.position.inRange) =>
        LET present    == ret.prediction # Null
            absIL      == IF present THEN Abs(ret.prediction[1].predictedILPercentage) ELSE 0
            worthwhile == ret.rebalanceDecision.shouldRebalance
        IN  IF present /\ absIL > 6 * SCALE
            THEN /\ ret.value.urgency = "critical"
                 /\ ret.value.action = IF worthwhile THEN "rebalance" ELSE "exit"
            ELSE IF present /\ absIL > 4 * SCALE /\ ret.volatility > 3 * SCALE
            THEN /\ ret.value.urgency = "high"
                 /\ ret.value.action = IF worthwhile THEN "widen_range" ELSE "monitor"
            ELSE IF present /\ absIL > 2 * SCALE
            THEN ret.value.urgency = "medium" /\ ret.value.action = "monitor"
            ELSE ret.value.urgency = "low" /\ ret.value.action = "monitor"

\* a position in range with a predicted loss between 4 % and 6 % in a volatile
\* market, worth rebalancing, was told to widen its range
C20_Witness ==
    /\ ret.op = "recommend"
    /\ ret.position.inRange
    /\ ret.prediction # Null
    /\ Abs(ret.prediction[1].predictedILPercentage) <= 6 * SCALE
    /\ ret.volatility > 3 * SCALE
    /\ ret.rebalanceDecision.shouldRebalance
    /\ ret.value.action = "widen_range"
    /\ ret.value.urgency = "high"

---------------------------------------------------------------------------
(* ILPredictor.predictMultiple: one predictIL per request, all started at   *)
(* once, each waiting for its own price fetch                               *)

BatchMaxRecords == 3

BatchInstants == {0, 60000}

BatchAnswers == {Null, Some(Fx(10)), Some(Fx(11))}

\* the requests of a batch
BatchRequests ==
    { [symbol |-> "SOL", config |-> c] : c \in {CHOOSE c \in Configs : c.timeframeMinutes = 30} }
    \cup { [symbol |-> "SOL/USD", config |-> c] : c \in Configs }

\* the lists that callers pass: none, one, two or three requests
BatchLists ==
    {<<>>} \cup { <<a>> : a \in BatchRequests }
    \cup { <<a, b>> : a \in BatchRequests, b \in BatchRequests }
    \cup { <<a, b, c>> : a \in {r \in BatchRequests : r.symbol = "SOL"},
                         b \in {r \in BatchRequests : r.symbol # "SOL"},
                         c \in {r \in BatchRequests : r.symbol # "SOL"} }

\* the requests of the batch whose predictIL has not returned yet
Pending(b) ==
    {i \in 1..Len(b.positions) : \A k \in 1..Len(b.done) : b.done[k].index # i}

\* what the predictIL of request i returned
ReturnedFor(b, i) ==
    b.done[CHOOSE k \in 1..Len(b.done) : b.done[k].index = i].value

\* an array filled in the order the promises settle
predictMultiple_CompletionOrder(b) ==
    [k \in 1..Len(b.done) |-> b.done[k].value]

\* Promise.all: the array of the fulfilment values, in the order of the promises
predictMultiple(b) ==
    [i \in 1..Len(b.positions) |-> ReturnedFor(b, i)]

\* predictMultiple(positions) up to its await: positions.map starts every
\* predictIL, each of which runs up to the await of its getPrice
StartPredictMultiple(positions) ==
    /\ batch = Null
    /\ batch' = Some([positions |-> positions, done |-> <<>>])
    /\ ret' = [op |-> "predictMultiple.start", positions |-> positions]
    /\ UNCHANGED <<now, priceHistory, recorded, predictorMonitor, positionMonitor>>

\* the price fetch of request i resolves and its predictIL runs to its return
SettlePrediction(i, answer) ==
    /\ batch # Null
    /\ i \in Pending(batch[1])
    /\ LET pos == batch[1].positions[i]
           r   == predictIL(priceHistory, now, pos.symbol, pos.config, answer)
       IN  /\ Room(pos.symbol, answer, BatchMaxRecords)
           /\ priceHistory' = r.history
           /\ recorded' = Recorded(pos.symbol,
                                   getPrice(priceHistory, now, pos.symbol, answer), now)
           /\ batch' = Some([batch[1] EXCEPT
                                !.done = Append(@, [index |-> i, value |-> r.value])])
           /\ ret' = [op |-> "predictIL", symbol |-> pos.symbol, config |-> pos.config,
                      answer |-> answer, value |-> r.value]
    /\ UNCHANGED <<now, predictorMonitor, positionMonitor>>

\* every promise has settled: the await of Promise.all resumes and
\* predictMultiple returns the array
ReturnPredictMultiple ==
    /\ batch # Null
    /\ Pending(batch[1]) = {}
    /\ ret' = [op |-> "predictMultiple", positions |-> batch[1].positions,
               done |-> batch[1].done, value |-> predictMultiple(batch[1])]
    /\ batch' = Null
    /\ UNCHANGED <<now, priceHistory, recorded, predictorMonitor, positionMonitor>>

NextBatch ==
    \/ \E t \in BatchInstants : Advance(t)
    \/ \E l \in BatchLists : StartPredictMultiple(l)
    \/ batch # Null /\ \E i \in Pending(batch[1]), a \in BatchAnswers : SettlePrediction(i, a)
    \/ ReturnPredictMultiple

SpecBatch == Init /\ [][NextBatch]_vars

\* C12: predictMultiple returns a list as long as the list of requests, whose
\* i-th element is what the predictIL of the i-th request returned, in
\* whatever order the price fetches resolved
C12_BatchKeepsRequestOrder ==
    ret.op = "predictMultiple" =>
        /\ Len(ret.value) = Len(ret.positions)
        /\ Len(ret.done) = Len(ret.positions)
        /\ \A i \in 1..Len(ret.positions) :
              /\ \E k \in 1..Len(ret.done) :
                    ret.done[k].index = i /\ ret.done[k].value = ret.value[i]
              /\ ret.value[i] # Null =>
                    /\ ret.value[i][1].symbol = ret.positions[i].symbol
                    /\ ret.value[i][1].predictionTimeframe
                           = ret.positions[i].config.timeframeMinutes

\* a batch of two whose second request resolved first, with different results
C12_Witness ==
    /\ ret.op = "predictMultiple"
    /\ Len(ret.positions) = 2
    /\ ret.done[1].index = 2
    /\ ret.done[2].index = 1
    /\ ret.value[1] # ret.value[2]
    /\ ret.value[1] # Null

---------------------------------------------------------------------------
(* ILPredictor.monitorPosition: one prediction at once, then one per        *)
(* interval; onRiskDetected on high and critical predictions                *)

MonitorMaxTicks == 2

MonitorMaxRecords == 3

MonitorAnswers == {Null, Some(Fx(10)), Some(Fx(11))}

\* the default intervalSeconds
MonitorIntervalSeconds == 30

\* positions entered at 10, 6.5 and 4, monitored on 'SOL/USD'
MonitorConfigs == {c \in LevelConfigs : c.entryPrice \in {Fx(10), 6500, Fx(4)}}

\* clearInterval(handle) on a timer: it is cleared when the handle is its own
clearInterval(timer, handle) ==
    IF handle # Null /\ timer = "set" THEN "cleared" ELSE timer

\* the condition of monitor, with medium risk reported too
ShouldAlert_Medium(prediction) ==
    prediction # Null /\ prediction[1].riskLevel \in {"medium", "high", "critical"}

\* the condition under which monitor calls onRiskDetected
ShouldAlert(prediction) ==
    prediction # Null /\ prediction[1].riskLevel \in {"high", "critical"}

\* a run of monitor that awaits its predictIL
StartedTick(byTimer, afterCancel, t) ==
    [byTimer |-> byTimer, afterCancel |-> afterCancel, startedAt |-> t,
     settled |-> FALSE, prediction |-> Null, alerted |-> FALSE, settledAfterCancel |-> FALSE]

\* monitorPosition(symbol, config, onRiskDetected) up to the await of its
\* first monitor(), which is inside predictIL
StartMonitor(symbol, config) ==
    /\ predictorMonitor.phase = "idle"
    /\ predictorMonitor' = [predictorMonitor EXCEPT
                               !.phase = "first",
                               !.symbol = symbol,
                               !.config = config,
                               !.ticks = <<StartedTick(FALSE, FALSE, now)>>]
    /\ ret' = [op |-> "ILPredictor.monitorPosition", symbol |-> symbol, config |-> config]
    /\ UNCHANGED <<now, priceHistory, recorded, batch, positionMonitor>>

\* the interval elapses and the timer, if armed, runs monitor up to its await
PredictorIntervalElapses ==
    /\ predictorMonitor.phase = "interval"
    /\ Len(predictorMonitor.ticks) <= MonitorMaxTicks
    /\ now' = now + MonitorIntervalSeconds * 1000
    /\ predictorMonitor' = [predictorMonitor EXCEPT
                               !.ticks = Append(@, StartedTick(TRUE, predictorMonitor.cancelled, now'))]
    /\ ret' = [op |-> "ILPredictor.monitor.start"]
    /\ UNCHANGED <<priceHistory, recorded, batch, positionMonitor>>

\* the price fetch of run k resolves: predictIL returns and monitor finishes;
\* after the first run monitorPosition arms the timer and returns
PredictorTickSettles(k, answer) ==
    LET tick       == predictorMonitor.ticks[k]
        symbol     == predictorMonitor.symbol
        r          == predictIL(priceHistory, now, symbol, predictorMonitor.config, answer)
        settledTick == [tick EXCEPT !.settled = TRUE,
                                    !.prediction = r.value,
                                    !.alerted = ShouldAlert(r.value),
                                    !.settledAfterCancel = predictorMonitor.cancelled]
    IN  /\ ~tick.settled
        /\ Room(symbol, answer, MonitorMaxRecords)
        /\ priceHistory' = r.history
        /\ recorded' = Recorded(symbol, getPrice(priceHistory, now, symbol, answer), now)
        /\ predictorMonitor' =
              IF tick.byTimer
              THEN [predictorMonitor EXCEPT !.ticks[k] = settledTick]
              ELSE [predictorMonitor EXCEPT !.ticks[k] = settledTick,
                                            !.phase = "interval",
                                            !.armedAt = Some(now)]
        /\ ret' = [op |-> "ILPredictor.monitor", tick |-> k, answer |-> answer,
                   prediction |-> r.value, alerted |-> ShouldAlert(r.value)]
        /\ UNCHANGED <<now, batch, positionMonitor>>

\* the caller cancels with what monitorPosition returned to it: the promise
\* resolves to undefined, and clearInterval(undefined) clears nothing
CancelPredictorMonitor ==
    /\ predictorMonitor.phase = "interval"
    /\ ~predictorMonitor.cancelled
    /\ predictorMonitor' =
          [predictorMonitor EXCEPT
              !.cancelled = TRUE,
              !.phase = IF clearInterval("set", predictorMonitor.returned) = "cleared"
                        THEN "cleared" ELSE @]
    /\ ret' = [op |-> "clearInterval", handle |-> predictorMonitor.returned]
    /\ UNCHANGED <<now, priceHistory, recorded, batch, positionMonitor>>

NextPredictorMonitor ==
    \/ \E c \in MonitorConfigs : StartMonitor("SOL/USD", c)
    \/ PredictorIntervalElapses
    \/ \E k \in 1..Len(predictorMonitor.ticks), a \in MonitorAnswers :
          PredictorTickSettles(k, a)
    \/ CancelPredictorMonitor

SpecPredictorMonitor == Init /\ [][NextPredictorMonitor]_vars

\* the runs of monitor started by the timer
TimerTicks(ticks) == {k \in 1..Len(ticks) : ticks[k].byTimer}

\* C13: ILPredictor.monitorPosition runs one prediction at once, before any
\* interval tick, and then one per interval; onRiskDetected is invoked for a
\* tick only when that tick's prediction exists and its riskLevel is high or
\* critical
C13_ImmediateThenIntervalAlertsOnHighRisk ==
    LET ticks == predictorMonitor.ticks
    IN  /\ predictorMonitor.phase # "idle" =>
              /\ Len(ticks) >= 1
              /\ ~ticks[1].byTimer
              /\ \A k \in 2..Len(ticks) : ticks[k].byTimer
        /\ TimerTicks(ticks) # {} => ticks[1].settled
        /\ \A k \in TimerTicks(ticks) :
              /\ predictorMonitor.armedAt # Null
              /\ ticks[k].startedAt
                    = predictorMonitor.armedAt[1] + (k - 1) * MonitorIntervalSeconds * 1000
        /\ \A k \in 1..Len(ticks) :
              ticks[k].alerted =>
                  /\ ticks[k].settled
                  /\ ticks[k].prediction # Null
                  /\ ticks[k].prediction[1].riskLevel \in {"high", "critical"}

\* the first run found no prediction and raised no alert, and a later run,
\* started by the timer, predicted high or critical risk and raised one
C13_Witness ==
    LET ticks == predictorMonitor.ticks
    IN  /\ predictorMonitor.phase = "interval"
        /\ ticks[1].settled
        /\ ticks[1].prediction = Null
        /\ ~ticks[1].alerted
        /\ \E k \in TimerTicks(ticks) :
              /\ ticks[k].alerted
              /\ ticks[k].prediction[1].riskLevel \in {"high", "critical"}

---------------------------------------------------------------------------
(* PositionMonitor: createMockPosition, updatePosition and monitorPosition  *)

\* the default intervalSeconds
PositionIntervalSeconds == 30

\* positions registered at once
MaxMockPositions == 2

\* what the feeds answer to the two fetches of updatePosition
TokenAnswers(symbol) ==
    IF symbol = "USDC/USD" THEN {Null, Some(Fx(1))} ELSE {Null, Some(Fx(10)), Some(Fx(12))}

\* Map.prototype.set
MapSet(map, key, value) ==
    [k \in DOMAIN map \cup {key} |-> IF k = key THEN value ELSE map[k]]

\* createMockPosition(tokenASymbol, tokenBSymbol, entryPrice, priceLower,
\* priceUpper, valueUSD) at clock reading t: the position it stores and returns
createMockPosition(t, tokenASymbol, tokenBSymbol, entryPrice, priceLower, priceUpper, valueUSD) ==
    [positionMint   |-> <<"mock", t>>,
     tokenA         |-> [symbol   |-> tokenASymbol,
                         amount   |-> FxDiv(valueUSD \div 2, entryPrice),
                         valueUSD |-> valueUSD \div 2],
     tokenB         |-> [symbol   |-> tokenBSymbol,
                         amount   |-> valueUSD \div 2,
                         valueUSD |-> valueUSD \div 2],
     totalValueUSD  |-> valueUSD,
     entryValueUSD  |-> valueUSD,
     currentIL      |-> 0,
     currentILValue |-> 0,
     feesEarnedUSD  |-> 0,
     netPnL         |-> 0,
     priceLower     |-> priceLower,
     priceUpper     |-> priceUpper,
     currentPrice   |-> entryPrice,
     inRange        |-> TRUE,
     entryTimestamp |-> t,
     lastUpdated    |-> t]

\* createPositionUpdate(position)
createPositionUpdate(position) ==
    LET absIL == Abs(position.currentIL)
        urgency == IF ~position.inRange THEN "critical"
                   ELSE IF absIL > Fx(6) THEN "critical"
                   ELSE IF absIL > Fx(4) THEN "high"
                   ELSE IF absIL > Fx(2) THEN "medium"
                   ELSE "low"
        recommendation ==
                   IF ~position.inRange THEN "Position OUT OF RANGE!"
                   ELSE IF absIL > Fx(6) THEN "CRITICAL IL"
                   ELSE IF absIL > Fx(4) THEN "High IL"
                   ELSE IF absIL > Fx(2) THEN "Moderate IL"
                   ELSE "Low IL"
    IN  [position |-> position, ilChange |-> 0,
         recommendation |-> recommendation, urgency |-> urgency]

\* the fields updatePosition assigns once it holds both prices
UpdatedPosition(position, priceA, priceB, t) ==
    LET valueA       == FxMul(position.tokenA.amount, priceA)
        valueB       == FxMul(position.tokenB.amount, priceB)
        currentPrice == FxDiv(priceA, priceB)
        ilResult     == calculateImpermanentLoss(position.currentPrice, currentPrice,
                                                 position.entryValueUSD)
    IN  [position EXCEPT
            !.tokenA.valueUSD = valueA,
            !.tokenB.valueUSD = valueB,
            !.totalValueUSD   = valueA + valueB,
            !.currentIL       = ilResult.ilPercentage,
            !.currentILValue  = ilResult.ilValue,
            !.currentPrice    = currentPrice,
            !.netPnL          = position.feesEarnedUSD - Abs(ilResult.ilValue),
            !.inRange         = currentPrice >= position.priceLower
                                /\ currentPrice <= position.priceUpper,
            !.lastUpdated     = t]

\* the runs of updatePosition that have not returned yet
InFlight(ticks) == {k \in 1..Len(ticks) : ticks[k].stage # "done"}

\* createMockPosition: the position is stored under `mock-${Date.now()}`
\* (callers create their positions while no update is running)
CreateMockPosition(tokenASymbol, tokenBSymbol, entryPrice, priceLower, priceUpper, valueUSD) ==
    LET mockPosition == createMockPosition(now, tokenASymbol, tokenBSymbol, entryPrice,
                                           priceLower, priceUpper, valueUSD)
        before       == positionMonitor.positions
        after        == MapSet(before, mockPosition.positionMint, mockPosition)
    IN  /\ Cardinality(DOMAIN before) < MaxMockPositions
        /\ InFlight(positionMonitor.ticks) = {}
        /\ positionMonitor' = [positionMonitor EXCEPT !.positions = after]
        /\ ret' = [op |-> "createMockPosition", value |-> mockPosition,
                   registeredBefore |-> DOMAIN before,
                   registeredAfter  |-> DOMAIN after]
        /\ UNCHANGED <<now, priceHistory, recorded, batch, predictorMonitor>>

\* PositionMonitor.monitorPosition(positionMint, onUpdate): the callback is
\* registered, the timer is set and its handle is returned
MonitorPosition(positionMint, onUpdate) ==
    /\ positionMonitor.timer = "none"
    /\ positionMonitor' =
          [positionMonitor EXCEPT
              !.updateCallbacks = MapSet(@, positionMint, onUpdate),
              !.timer = "set",
              !.monitored = positionMint,
              !.returned = Some("Timeout")]
    /\ ret' = [op |-> "PositionMonitor.monitorPosition", positionMint |-> positionMint,
               value |-> Some("Timeout")]
    /\ UNCHANGED <<now, priceHistory, recorded, batch, predictorMonitor>>

\* updatePosition(positionMint) up to the await of its first getPrice, or to
\* its return of null if the position is unknown
StartedUpdate(positionMint, byTimer) ==
    [positionMint |-> positionMint,
     byTimer      |-> byTimer,
     afterCancel  |-> positionMonitor.cancelled,
     idleAtStart  |-> InFlight(positionMonitor.ticks) = {},
     stage        |-> IF positionMint \in DOMAIN positionMonitor.positions
                      THEN "priceA" ELSE "done",
     priceA       |-> Null,
     value        |-> Null,
     called       |-> Null,
     settledAfterCancel |-> FALSE]

\* the interval elapses and the timer, if still set, runs updatePosition up to
\* the await of its first getPrice (or to its return, if the position is unknown)
PositionIntervalElapses ==
    /\ positionMonitor.timer = "set"
    /\ Len(positionMonitor.ticks) < MonitorMaxTicks
    /\ now' = now + PositionIntervalSeconds * 1000
    /\ positionMonitor' =
          [positionMonitor EXCEPT
              !.ticks = Append(@, StartedUpdate(positionMonitor.monitored, TRUE))]
    /\ ret' = [op |-> "updatePosition.start", positionMint |-> positionMonitor.monitored]
    /\ UNCHANGED <<priceHistory, recorded, batch, predictorMonitor>>

\* a caller calls updatePosition(positionMint) itself
UpdatePosition(positionMint) ==
    /\ Len(positionMonitor.ticks) < MonitorMaxTicks
    /\ positionMonitor' =
          [positionMonitor EXCEPT !.ticks = Append(@, StartedUpdate(positionMint, FALSE))]
    /\ ret' = IF positionMint \in DOMAIN positionMonitor.positions
              THEN [op |-> "updatePosition.start", positionMint |-> positionMint]
              ELSE [op |-> "updatePosition", positionMint |-> positionMint,
                    value |-> Null, called |-> Null]
    /\ UNCHANGED <<now, priceHistory, recorded, batch, predictorMonitor>>

\* the fetch of token A's price resolves; updatePosition asks for token B's
PositionPriceA(k, answer) ==
    LET tick     == positionMonitor.ticks[k]
        position == positionMonitor.positions[tick.positionMint]
        symbol   == position.tokenA.symbol \o "/USD"
        priceA   == getPrice(WithKey(priceHistory, symbol), now, symbol, answer)
    IN  /\ tick.stage = "priceA"
        /\ Room(symbol, answer, MonitorMaxRecords)
        /\ priceHistory' = priceA.history
        /\ recorded' = Recorded(symbol, priceA, now)
        /\ positionMonitor' =
              [positionMonitor EXCEPT !.ticks[k].stage = "priceB",
                                      !.ticks[k].priceA = priceA.value]
        /\ ret' = [op |-> "getPrice", symbol |-> symbol, value |-> priceA.value]
        /\ UNCHANGED <<now, batch, predictorMonitor>>

\* the fetch of token B's price resolves; with both prices updatePosition
\* updates the position and calls the registered callback; it returns the
\* position, or null if a price is missing or the callback threw
PositionPriceB(k, answer, throws) ==
    LET tick     == positionMonitor.ticks[k]
        position == positionMonitor.positions[tick.positionMint]
        symbol   == position.tokenB.symbol \o "/USD"
        priceB   == getPrice(WithKey(priceHistory, symbol), now, symbol, answer)
        both     == tick.priceA # Null /\ priceB.value # Null
        updated  == UpdatedPosition(position, tick.priceA[1].price, priceB.value[1].price, now)
        callback == tick.positionMint \in DOMAIN positionMonitor.updateCallbacks
        called   == IF both /\ callback THEN Some(createPositionUpdate(updated)) ELSE Null
        value    == IF both /\ ~(callback /\ throws) THEN Some(updated) ELSE Null
    IN  /\ tick.stage = "priceB"
        /\ throws => (both /\ callback)
        /\ Room(symbol, answer, MonitorMaxRecords)
        /\ priceHistory' = priceB.history
        /\ recorded' = Recorded(symbol, priceB, now)
        /\ positionMonitor' =
              IF ~both
              THEN [positionMonitor EXCEPT
                       !.ticks[k].stage = "done",
                       !.ticks[k].settledAfterCancel = positionMonitor.cancelled]
              ELSE [positionMonitor EXCEPT
                       !.positions[tick.positionMint] = updated,
                       !.ticks[k].stage = "done",
                       !.ticks[k].value = value,
                       !.ticks[k].called = called,
                       !.ticks[k].settledAfterCancel = positionMonitor.cancelled]
        /\ ret' = [op |-> "updatePosition", positionMint |-> tick.positionMint,
                   value |-> value, called |-> called]
        /\ UNCHANGED <<now, batch, predictorMonitor>>

\* the caller cancels with what monitorPosition returned to it: the handle of
\* the timer
CancelPositionMonitor ==
    /\ positionMonitor.returned # Null
    /\ ~positionMonitor.cancelled
    /\ positionMonitor' =
          [positionMonitor EXCEPT
              !.cancelled = TRUE,
              !.timer = clearInterval(@, positionMonitor.returned)]
    /\ ret' = [op |-> "clearInterval", handle |-> positionMonitor.returned]
    /\ UNCHANGED <<now, priceHistory, recorded, batch, predictorMonitor>>

\* the mock positions that callers create: a narrow and a wide range around 10
MockRanges == {<<Fx(9), Fx(11)>>, <<Fx(5), Fx(20)>>}

\* a positionMint under which nothing is stored
UnknownMint == <<"mock", 0 - 1>>

\* PositionMonitor with its mock positions and its caller
NextPositionMonitor ==
    \/ \E r \in MockRanges : CreateMockPosition("SOL", "USDC", Fx(10), r[1], r[2], Fx(1000))
    \/ \E m \in DOMAIN positionMonitor.positions : MonitorPosition(m, "onUpdate")
    \/ PositionIntervalElapses
    \/ \E m \in DOMAIN positionMonitor.positions \cup {UnknownMint} : UpdatePosition(m)
    \/ \E k \in 1..Len(positionMonitor.ticks), a \in TokenAnswers("SOL/USD") :
          PositionPriceA(k, a)
    \/ \E k \in 1..Len(positionMonitor.ticks), a \in TokenAnswers("USDC/USD"), throws \in BOOLEAN :
          PositionPriceB(k, a, throws)
    \/ CancelPositionMonitor

SpecPositionMonitor == Init /\ [][NextPositionMonitor]_vars

\* no run of ILPredictor's monitor starts once its caller has cancelled, and a
\* run in flight at that moment still finishes and alerts
PredictorCancelStops ==
    \A k \in 1..Len(predictorMonitor.ticks) :
        LET tick == predictorMonitor.ticks[k]
        IN  /\ ~tick.afterCancel
            /\ (tick.settled /\ tick.settledAfterCancel /\ ShouldAlert(tick.prediction))
                   => tick.alerted

\* no run of updatePosition is started by the timer once its caller has
\* cancelled, and a run in flight at that moment still finishes and calls back
PositionCancelStops ==
    \A k \in 1..Len(positionMonitor.ticks) :
        LET tick == positionMonitor.ticks[k]
        IN  tick.byTimer =>
              /\ ~tick.afterCancel
              /\ (tick.stage = "done" /\ tick.settledAfterCancel /\ tick.value # Null)
                     => tick.called # Null

\* a run of updatePosition that was in flight when the caller cancelled and
\* then finished with a callback
PositionCancelWitness ==
    /\ positionMonitor.timer = "cleared"
    /\ \E k \in 1..Len(positionMonitor.ticks) :
          /\ positionMonitor.ticks[k].byTimer
          /\ positionMonitor.ticks[k].settledAfterCancel
          /\ positionMonitor.ticks[k].called # Null

\* C14: both standing monitors can be cancelled by the caller through the
\* timer handle: after cancellation no new tick starts, while a tick in
\* flight completes and its callback still fires
C14_CancelStopsBothMonitors ==
    PredictorCancelStops /\ PositionCancelStops

---------------------------------------------------------------------------
(* The engine when the prediction is missing, and what its recommendation   *)
(* rests on                                                                 *)

\* the reasoning of the recommendation says that the IL could not be predicted
NotesMissingPrediction(recommendation) ==
    \E i \in 1..Len(recommendation.reasoning) :
        recommendation.reasoning[i] = "Unable to predict IL - insufficient data"

\* no price was to be had for the scored position, at either fetch
PriceUnavailable ==
    \/ ret.position.tokenA.symbol \notin PRICE_FEED_IDS
    \/ (ret.answer = Null /\ ret.again = Null)

\* C21: whenever the prediction is absent because the price is unavailable,
\* the RiskScore of calculateRiskScore has predictedIL = 0 and a
\* recommendation.reasoning that notes the missing prediction, for in-range
\* and out-of-range positions alike.
C21_MissingPredictionIsNoted ==
    (ret.op = "calculateRiskScore" /\ PriceUnavailable /\ ret.value.prediction = Null) =>
        /\ ret.value.components.predictedIL = 0
        /\ NotesMissingPrediction(ret.value.recommendation)

\* the same for out-of-range positions only
MissingPredictionIsNotedOutOfRange ==
    (ret.op = "calculateRiskScore" /\ PriceUnavailable /\ ret.value.prediction = Null
        /\ ~ret.position.inRange) =>
        /\ ret.value.components.predictedIL = 0
        /\ NotesMissingPrediction(ret.value.recommendation)

\* the actions that change the position
ChangingActions == {"rebalance", "widen_range"}

FeedKeyOfTokenA == ret.position.tokenA.symbol \o "/USD"

\* the prediction that the last engine operation obtained for itself
ObtainedPrediction ==
    IF ret.op = "calculateRiskScore" THEN ret.value.prediction ELSE ret.prediction

\* C24: calculateRiskScore and shouldRebalance request the prediction under
\* the feed-format symbol "<tokenA>/USD", the key under which prices are
\* recorded and volatility is read; so for a position on a known token whose
\* history has enough samples (and whose price the feed gives) the prediction
\* is present.
C24_PredictionUnderFeedSymbol ==
    (/\ ret.op \in {"calculateRiskScore", "shouldRebalance"}
     /\ FeedKeyOfTokenA \in PRICE_FEED_IDS
     /\ ret.answer # Null
     /\ Len(priceHistory[FeedKeyOfTokenA]) >= 2) =>
        ObtainedPrediction # Null

\* C26: within one calculateRiskScore call the score and the recommendation
\* rest on the same prediction: if the returned prediction is absent
\* (components.predictedIL = 0), recommendation.worthRebalancing is false and
\* recommendation.expectedSavings is 0; if it is present, expectedSavings is
\* 0.7 |prediction.predictedILValue|.
C26_ScoreAndRecommendationShareThePrediction ==
    ret.op = "calculateRiskScore" =>
        /\ ret.value.prediction = Null =>
              /\ ret.value.components.predictedIL = 0
              /\ ~ret.value.recommendation.worthRebalancing
              /\ ret.value.recommendation.expectedSavings = 0
        /\ ret.value.prediction # Null =>
              ret.value.recommendation.expectedSavings
                  = FxMul(Abs(ret.value.prediction[1].predictedILValue), 700)

\* the same when the returned prediction is absent
AbsentPredictionMeansNoSavings ==
    (ret.op = "calculateRiskScore" /\ ret.value.prediction = Null) =>
        /\ ~ret.value.recommendation.worthRebalancing
        /\ ret.value.recommendation.expectedSavings = 0

\* the same when the returned prediction is present
PresentPredictionGivesTheSavings ==
    (ret.op = "calculateRiskScore" /\ ret.value.prediction # Null) =>
        ret.value.recommendation.expectedSavings
            = FxMul(Abs(ret.value.prediction[1].predictedILValue), 700)

---------------------------------------------------------------------------
(* Which operations change the price histories *)

FrameMaxRecords == 3

FrameInstants == {0, 60000}

FrameAnswers == {Null, Some(Fx(11))}

FrameConfigs == {c \in Configs : c.timeframeMinutes = 30}

\* positions in range, on the bare token and on the feed's key
FramePositions ==
    {p \in Positions : p.inRange /\ p.currentIL = 0 /\ p.totalValueUSD = Fx(1000)}

\* batches of one and of two requests
FrameLists ==
    { <<[symbol |-> "SOL/USD", config |-> c]>> : c \in FrameConfigs }
    \cup { <<[symbol |-> "SOL", config |-> c], [symbol |-> "SOL/USD", config |-> c]>> :
             c \in FrameConfigs }

NextFrame ==
    \/ \E t \in FrameInstants : Advance(t)
    \/ \E s \in Symbols, a \in FrameAnswers : Room(s, a, FrameMaxRecords) /\ GetPrice(s, a)
    \/ \E s \in Symbols : GetPriceVelocity(s)
    \/ \E s \in Symbols : GetVolatility(s, 15)
    \/ \E s \in Symbols : GetHistorySize(s)
    \/ \E s \in Symbols, c \in FrameConfigs, a \in FrameAnswers :
          Room(s, a, FrameMaxRecords) /\ PredictIL(s, c, a)
    \/ \E l \in FrameLists : StartPredictMultiple(l)
    \/ batch # Null /\ \E i \in Pending(batch[1]), a \in FrameAnswers : SettlePrediction(i, a)
    \/ ReturnPredictMultiple
    \/ \E p \in FramePositions, a \in FrameAnswers, b \in AnswersAgain :
          RoomFor(p.tokenA.symbol, 2, FrameMaxRecords) /\ CalculateRiskScore(p, a, b)
    \/ \E p \in FramePositions, a \in FrameAnswers :
          RoomFor(p.tokenA.symbol, 1, FrameMaxRecords) /\ ShouldRebalance(p, a)

SpecFrame == Init /\ [][NextFrame]_vars

\* the operations that only read the histories
ReadingOperations ==
    {"getPriceVelocity", "getVolatility", "getHistorySize",
     "predictMultiple.start", "predictMultiple"}

\* the operations that fetch a price on their way
FetchingOperations == {"predictIL", "shouldRebalance", "calculateRiskScore"}

\* history `after` is history `before` with at most n samples appended, each
\* taken at clock reading t
Extends(before, after, n, t) ==
    /\ Len(after) >= Len(before)
    /\ Len(after) <= Len(before) + n
    /\ \A i \in 1..Len(before) : after[i] = before[i]
    /\ \A i \in (Len(before) + 1)..Len(after) : after[i].timestamp = t

---------------------------------------------------------------------------
(* PositionMonitor: what updatePosition leaves in the position, the         *)
(* identifiers of mock positions, and who calls the registered callback     *)

\* the entry price a mock position was created with: tokenA.amount is
\* valueUSD / 2 / entryPrice, and updatePosition changes neither field
EntryPriceOf(position) ==
    FxDiv(position.entryValueUSD \div 2, position.tokenA.amount)

\* inRange of the stored position says whether its latest price is within its
\* bounds, the bounds included
InRangeMatchesLatestPrice ==
    (ret.op = "updatePosition" /\ ret.value # Null) =>
        LET position == positionMonitor.positions[ret.positionMint]
        IN  position.inRange <=> (/\ position.priceLower <= position.currentPrice
                                  /\ position.currentPrice <= position.priceUpper)

\* C25: after any number of successful updatePosition calls on a position, its
\* currentIL and currentILValue are the impermanent loss between its entry
\* price (the price given at creation) and the latest market price, and inRange
\* is true iff priceLower <= latest price <= priceUpper.
C25_ILIsMeasuredFromEntryPrice ==
    (ret.op = "updatePosition" /\ ret.value # Null) =>
        LET position == positionMonitor.positions[ret.positionMint]
            ilResult == calculateImpermanentLoss(EntryPriceOf(position),
                                                 position.currentPrice,
                                                 position.entryValueUSD)
        IN  /\ position.currentIL = ilResult.ilPercentage
            /\ position.currentILValue = ilResult.ilValue
            /\ position.inRange <=> (/\ position.priceLower <= position.currentPrice
                                     /\ position.currentPrice <= position.priceUpper)

\* C27: every createMockPosition call registers the new position under an
\* identifier distinct from all those registered before, so the number of
\* registered positions grows by exactly one per call and no earlier position
\* is overwritten, also when two calls happen at the same clock instant.
C27_MockPositionIdsAreDistinct ==
    ret.op = "createMockPosition" =>
        /\ ret.value.positionMint \notin ret.registeredBefore
        /\ Cardinality(ret.registeredAfter) = Cardinality(ret.registeredBefore) + 1

\* C28: the onUpdate callback registered by monitorPosition is invoked only by
\* ticks of that monitor's own timer: once the timer has been cleared and no
\* tick is in flight, no later operation, such as a direct updatePosition
\* call, invokes it again.
C28_CallbackOnlyFromOwnTimer ==
    \A k \in 1..Len(positionMonitor.ticks) :
        LET tick == positionMonitor.ticks[k]
        IN  (~tick.byTimer /\ tick.afterCancel /\ tick.idleAtStart) => tick.called = Null

\* while the timer is set, the callback is invoked by its ticks
CallbackFromOwnTimerWitness ==
    \E k \in 1..Len(positionMonitor.ticks) :
        /\ positionMonitor.ticks[k].byTimer
        /\ positionMonitor.ticks[k].called # Null

\* C29: whenever updatePosition returns null (unknown position, a missing
\* price for either token, or an exception during the update, including one
\* thrown by the registered callback), every field of the stored position is
\* the same as before the call.
C29_NullLeavesPositionUnchanged ==
    [][(ret'.op = "updatePosition" /\ ret'.value = Null)
          => positionMonitor'.positions = positionMonitor.positions]_vars

\* the same for the calls that return null before the callback is reached
NullBeforeCallbackLeavesPositionUnchanged ==
    [][(ret'.op = "updatePosition" /\ ret'.value = Null /\ ret'.called = Null)
          => positionMonitor'.positions = positionMonitor.positions]_vars

===========================================================================
